---- MODULE Spec2Model ----
(***************************************************************************)
(* Model of the prediction and scoring engine of the student tracking app: *)
(*   - PredictionService (app/services/prediction_service.py)              *)
(*   - CareerAssessmentService (app/services/career_service.py)            *)
(*   - DatabaseService (app/services/database_service.py)                  *)
(*   - the dashboard and assessment pages that drive them.                 *)
(*                                                                         *)
(* Numbers: Python floats are modelled in fixed point.  A score, a         *)
(* prediction, a standard deviation and an MAE are integers in units of    *)
(* 1/Scale of a grade point (7.0 is 7 * Scale); R2 is in units of 1/Scale. *)
(* A fitted line is kept exactly, as numerators over a common denominator, *)
(* and rounded (floor) once, when it is evaluated.                         *)
(***************************************************************************)
EXTENDS Integers, Sequences, FiniteSets, Bags, TLC

VARIABLES
    grades_df,          \* SpecPredict: the grade table passed to predict_grade_12
    predictResult,      \* SpecPredict: what the last predict_grade_12 call returned
    models,             \* PredictionService.models (subject -> fitted model)
    analysisInput,      \* SpecAnalyze: the prediction list given to analyze_student_strengths
    analysis,           \* SpecAnalyze: what analyze_student_strengths returned
    trend,              \* SpecPredict: what the last get_trend_data call returned
    gradesTable,        \* Spec: the rows of table grades
    predictionsTable,   \* Spec: the rows of table predictions
    lastRun,            \* Spec: the dashboard run that was the last step, if any
    studentsTable,      \* the ids of the rows of table students
    recommendationsTable, \* the rows of table career_recommendations
    lastDelete,         \* SpecStudents: the last delete_student call and what it returned
    usersTable,         \* the rows of table users
    userSession,        \* the objects added to the database session and not committed
    authResult,         \* SpecUsers: the last call of the AuthService and its outcome
    framework_df,       \* the framework rows (id, riasec_code, weight), in table order
    assessment_responses, \* the response list given to calculate_riasec_scores
    riasecResult,       \* what calculate_riasec_scores returned, and how often it ran
    recommendation,     \* what generate_final_recommendation returned
    futures,            \* SpecEval: the executor's futures, one per submitted framework row
    evalResponses,      \* SpecEval: the list evaluate_all_questions collects
    evalPc,             \* SpecEval: where the assessment run of the page is
    assessmentTable     \* SpecEval: the rows of table assessment_responses

predictVars == <<grades_df, predictResult, models, analysisInput, analysis, trend>>
studentVars == <<studentsTable, recommendationsTable, lastDelete>>
authVars == <<usersTable, userSession, authResult>>
dbVars == <<gradesTable, predictionsTable, lastRun, studentVars, authVars>>
riasecVars == <<framework_df, assessment_responses, riasecResult, recommendation>>

evalVars == <<futures, evalResponses, evalPc, assessmentTable>>

vars == <<predictVars, dbVars, riasecVars, evalVars>>

----------------------------------------------------------------------------
(* Bounds and input domains *)

Scale == 10             \* fixed-point resolution: 1/Scale of a grade point
MaxRows == 3            \* rows of a grade table given to predict_grade_12
MaxGrades == 2          \* rows of table grades

Subjects == {"Math", "Lit"}
SubjectOrder == <<"Lit", "Math">>      \* string collation, for ORDER BY subject
GradeLevels == {9, 10, 11}
Scores == {2 * Scale, 6 * Scale, 7 * Scale, 8 * Scale}

Students == {"s1", "s2"}
DbPoints == {<<9, 6 * Scale>>, <<10, 7 * Scale>>}      \* (grade_level, score)

MinScore == 0
MaxScore == 10 * Scale

MaxResponses == 2       \* responses in a list given to calculate_riasec_scores
MaxCalls == 2           \* calls of calculate_riasec_scores on one service instance
MaxWorkers == 2         \* max_workers of the thread pool (the page passes 5)

ConfOne == 100          \* confidence 1.0; confidences are in units of 1/ConfOne
DefaultConfidence == 80 \* response.get('confidence_score', 0.8)
Answers == {"Yes", "Partial", "No", "Error"}
Confidences == {-50, 50, 150}
ResponseQuestionIds == {1, 2, 3}        \* 3 is the id of no framework row
Weights == {1, 2}

----------------------------------------------------------------------------
(* Sequence helpers *)

RECURSIVE Sum(_)
Sum(s) == IF s = <<>> THEN 0 ELSE Head(s) + Sum(Tail(s))

Abs(x) == IF x < 0 THEN -x ELSE x

SeqsUpTo(S, n) == UNION {[1..k -> S] : k \in 0..n}

\* np.clip(x, lo, hi)
Clip(x, lo, hi) == IF x < lo THEN lo ELSE IF x > hi THEN hi ELSE x

Max2(a, b) == IF a >= b THEN a ELSE b
Min2(a, b) == IF a <= b THEN a ELSE b

\* floor of the square root
ISqrt(v) == CHOOSE r \in 0..(MaxScore + 1) : r * r <= v /\ (r + 1) * (r + 1) > v

\* Series.unique(): the distinct values in order of first appearance
RECURSIVE Unique(_)
Unique(s) ==
    IF s = <<>> THEN <<>>
    ELSE LET rest == Unique(SelectSeq(Tail(s), LAMBDA x : x # Head(s)))
         IN  <<Head(s)>> \o rest

----------------------------------------------------------------------------
(* PredictionService *)

ModelVersion == "linear_regression_v1"

\* grades_df[grades_df['subject'] == subject]
SubjectDf(df, subject) == SelectSeq(df, LAMBDA r : r.subject = subject)

\* subject_df['grade_level'].values and subject_df['score'].values
GradeLevelColumn(df) == [i \in 1..Len(df) |-> df[i].grade_level]
ScoreColumn(df) == [i \in 1..Len(df) |-> df[i].score]

\* sum of the products of two columns
Dot(a, b) == Sum([i \in 1..Len(a) |-> a[i] * b[i]])

\* No model: what train_model_for_subject returns for a sparse subject.
NoModel == [kind |-> "none", coef |-> 0, intercept |-> 0, den |-> 1,
            r2_score |-> 0, mae |-> 0, data_points |-> 0]

\* Mutant of Fit: the line through the first and the last row.
Fit_endpoints(sdf) ==
    LET n == Len(sdf)
        D == sdf[n].grade_level - sdf[1].grade_level
    IN  IF D = 0
        THEN [coef |-> 0, intercept |-> sdf[1].score, den |-> 1]
        ELSE [coef |-> sdf[n].score - sdf[1].score,
              intercept |-> sdf[1].score * D - sdf[1].grade_level * (sdf[n].score - sdf[1].score),
              den |-> D]

\* LinearRegression().fit(X, y) on one feature: the least-squares line through
\* the rows, slope coef/den and intercept intercept/den.  When every row has
\* the same grade_level the centred X is zero and the minimum-norm solution
\* is slope 0, intercept mean(y).
Fit(sdf) ==
    LET n   == Len(sdf)
        X   == GradeLevelColumn(sdf)
        y   == ScoreColumn(sdf)
        Sx  == Sum(X)
        Sy  == Sum(y)
        Sxx == Dot(X, X)
        Sxy == Dot(X, y)
        D   == n * Sxx - Sx * Sx
    IN  IF D = 0
        THEN [coef |-> 0, intercept |-> Sy, den |-> n]
        ELSE [coef |-> n * Sxy - Sx * Sy, intercept |-> Sy * Sxx - Sx * Sxy, den |-> D]

\* model.predict([[g]])[0], rounded down to the fixed-point grid
ModelPredict(m, g) == (m.coef * g + m.intercept) \div m.den

\* y - model.predict(X), row by row, in units of 1 / m.den
Residuals(m, sdf) ==
    [i \in 1..Len(sdf) |-> m.den * sdf[i].score - m.coef * sdf[i].grade_level - m.intercept]

\* model.score(X, y): 1 - SSres / SStot; 1.0 when both are 0, 0.0 when only
\* SStot is 0 (sklearn.metrics.r2_score).
R2Score(m, sdf) ==
    LET n     == Len(sdf)
        y     == ScoreColumn(sdf)
        V     == n * Dot(y, y) - Sum(y) * Sum(y)      \* n * SStot
        res   == Residuals(m, sdf)
        resN  == Dot(res, res)                        \* SSres = resN / dd
        dd    == m.den * m.den
    IN  IF V = 0
        THEN (IF resN = 0 THEN Scale ELSE 0)
        ELSE ((dd * V - resN * n) * Scale) \div (dd * V)

\* np.mean(np.abs(y - predictions))
MeanAbsError(m, sdf) ==
    LET res == Residuals(m, sdf)
    IN  Sum([i \in 1..Len(res) |-> Abs(res[i])]) \div (m.den * Len(sdf))

\* Mutant of train_model_for_subject: a sparse subject raises instead of
\* returning None.
train_model_for_subject_raises(df, subject) ==
    LET sdf == SubjectDf(df, subject)
    IN  IF Len(sdf) < 2
        THEN [NoModel EXCEPT !.kind = "raise"]
        ELSE LET m == Fit(sdf)
             IN  [kind |-> "model", coef |-> m.coef, intercept |-> m.intercept,
                  den |-> m.den, r2_score |-> R2Score(m, sdf),
                  mae |-> MeanAbsError(m, sdf), data_points |-> Len(sdf)]

\* PredictionService.train_model_for_subject: None below 2 rows, else the
\* fitted model with its metrics (what is stored in self.models and
\* self.model_metrics).
train_model_for_subject(df, subject) ==
    LET sdf == SubjectDf(df, subject)
    IN  IF Len(sdf) < 2
        THEN NoModel
        ELSE LET m == Fit(sdf)
             IN  [kind |-> "model", coef |-> m.coef, intercept |-> m.intercept,
                  den |-> m.den, r2_score |-> R2Score(m, sdf),
                  mae |-> MeanAbsError(m, sdf), data_points |-> Len(sdf)]

\* subject_df['score'].std(): the sample standard deviation (ddof = 1)
StdDev(sdf) ==
    LET n == Len(sdf)
        y == ScoreColumn(sdf)
    IN  ISqrt((n * Dot(y, y) - Sum(y) * Sum(y)) \div (n * (n - 1)))

\* Mutant of ClipScore: the prediction is not clipped.
ClipScore_unclipped(x) == x

\* np.clip(predicted_score, 0, 10)
ClipScore(x) == Clip(x, MinScore, MaxScore)

\* max(0, predicted_score - std_dev)
ConfidenceLower(predicted_score, std_dev) == Max2(MinScore, predicted_score - std_dev)

\* min(10, predicted_score + std_dev)
ConfidenceUpper(predicted_score, std_dev) == Min2(MaxScore, predicted_score + std_dev)

\* The prediction dictionary built for one subject that has a model.
PredictionFor(student_id, df, subject, model) ==
    LET predicted_score == ClipScore(ModelPredict(model, 12))
        std_dev         == StdDev(SubjectDf(df, subject))
    IN  [student_id |-> student_id,
         subject |-> subject,
         predicted_score |-> predicted_score,
         confidence_lower |-> ConfidenceLower(predicted_score, std_dev),
         confidence_upper |-> ConfidenceUpper(predicted_score, std_dev),
         model_version |-> ModelVersion,
         r2_score |-> model.r2_score,
         mae |-> model.mae]

\* The loop of predict_grade_12 over the subjects: one prediction per
\* subject for which train_model_for_subject returned a model; an exception
\* raised while training ends the call.
RECURSIVE PredictLoop(_, _, _)
PredictLoop(student_id, df, subjects) ==
    IF subjects = <<>> THEN [raised |-> FALSE, value |-> <<>>]
    ELSE LET subject == Head(subjects)
             model   == train_model_for_subject(df, subject)
             rest    == PredictLoop(student_id, df, Tail(subjects))
         IN  IF model.kind = "raise" THEN [raised |-> TRUE, value |-> <<>>]
             ELSE IF rest.raised THEN rest
             ELSE IF model.kind = "none" THEN rest
             ELSE [raised |-> FALSE,
                   value |-> <<PredictionFor(student_id, df, subject, model)>> \o rest.value]

\* PredictionService.predict_grade_12.  The empty table is pd.DataFrame(), as
\* get_student_grades_df returns it: it has no 'subject' column and
\* grades_df['subject'] raises KeyError.
predict_grade_12(student_id, df) ==
    IF df = <<>> THEN [raised |-> TRUE, value |-> <<>>]
    ELSE PredictLoop(student_id, df, Unique([i \in 1..Len(df) |-> df[i].subject]))

\* self.models after predict_grade_12: every subject trained in the call
\* overwrites its entry, the other entries stay.
ModelsAfterPredict(ms, df) ==
    IF df = <<>> THEN ms
    ELSE [s \in DOMAIN ms |->
            IF train_model_for_subject(df, s).kind = "model"
            THEN train_model_for_subject(df, s) ELSE ms[s]]

----------------------------------------------------------------------------
(* CareerAssessmentService: RIASEC scoring                                 *)
(*                                                                         *)
(* A score is an exact fraction [num, den] in lowest terms (the float the  *)
(* code computes, without its rounding).  An accumulated credit is in      *)
(* units of 1/(2 * ConfOne): base credit in halves times confidence.       *)

\* The keys of riasec_scores, in the order the dict is built.
RIASEC == <<"R", "I", "A", "S", "E", "C">>
Codes == {RIASEC[i] : i \in 1..Len(RIASEC)}

RECURSIVE GCD(_, _)
GCD(a, b) == IF b = 0 THEN a ELSE GCD(b, a % b)

Ratio(n, d) == LET g == GCD(Abs(n), d) IN [num |-> n \div g, den |-> d \div g]

RatioLess(a, b) == a.num * b.den < b.num * a.den

\* framework_df[framework_df['id'] == question_id]
QuestionRows(framework, question_id) ==
    SelectSeq(framework, LAMBDA q : q.id = question_id)

\* base_score, in halves: Yes 1.0, Partial 0.5, anything else 0.0
BaseScore(answer) ==
    IF answer = "Yes" THEN 2 ELSE IF answer = "Partial" THEN 1 ELSE 0

\* Mutant of ResponseConfidence: the confidence is not clamped.
ResponseConfidence_unclamped(response) ==
    IF response.has_confidence THEN response.confidence_score ELSE DefaultConfidence

\* response.get('confidence_score', 0.8), clamped to [0, 1]
ResponseConfidence(response) ==
    LET confidence == IF response.has_confidence THEN response.confidence_score
                      ELSE DefaultConfidence
    IN  Max2(0, Min2(ConfOne, confidence))

\* Mutant of FinalScore: the credit falls as the confidence rises.
FinalScore_fallingInConfidence(response) ==
    LET base_score == BaseScore(response.answer)
    IN  IF base_score > 0 THEN base_score * (ConfOne - ResponseConfidence(response)) ELSE 0

\* final_score: base_score * confidence for a positive answer, else 0.0
FinalScore(response) ==
    LET base_score == BaseScore(response.answer)
    IN  IF base_score > 0 THEN base_score * ResponseConfidence(response) ELSE 0

\* riasec_scores and riasec_weights before the loop
ZeroTotals == [raised |-> FALSE,
               scores |-> [c \in Codes |-> 0],
               weights |-> [c \in Codes |-> 0]]

\* Mutant of Accumulate: a response without credit is left out, its weight
\* included.
RECURSIVE Accumulate_skipsZeroCredit(_, _, _)
Accumulate_skipsZeroCredit(responses, framework, totals) ==
    IF responses = <<>> \/ totals.raised THEN totals
    ELSE LET response == Head(responses)
             rows     == QuestionRows(framework, response.question_id)
         IN  IF rows = <<>>
             THEN [totals EXCEPT !.raised = TRUE]
             ELSE LET question == rows[1]
                      code     == question.riasec_code
                      weight   == IF FinalScore(response) = 0 THEN 0 ELSE question.weight
                  IN  Accumulate_skipsZeroCredit(Tail(responses), framework,
                        [totals EXCEPT
                            !.scores[code] = @ + FinalScore(response) * weight,
                            !.weights[code] = @ + weight])

\* The loop over the responses, from the totals so far.  A response whose
\* question_id matches no framework row makes .iloc[0] raise IndexError.
RECURSIVE Accumulate(_, _, _)
Accumulate(responses, framework, totals) ==
    IF responses = <<>> \/ totals.raised THEN totals
    ELSE LET response == Head(responses)
             rows     == QuestionRows(framework, response.question_id)
         IN  IF rows = <<>>
             THEN [totals EXCEPT !.raised = TRUE]
             ELSE LET question == rows[1]
                      code     == question.riasec_code
                      weight   == question.weight
                  IN  Accumulate(Tail(responses), framework,
                        [totals EXCEPT
                            !.scores[code] = @ + FinalScore(response) * weight,
                            !.weights[code] = @ + weight])

\* (riasec_scores[code] / riasec_weights[code]) * 100 when the weight sum is
\* positive; else the accumulated value stays.
NormalizedScore(score_sum, weight_sum) ==
    IF weight_sum > 0
    THEN Ratio(100 * score_sum, 2 * ConfOne * weight_sum)
    ELSE Ratio(score_sum, 2 * ConfOne)

\* CareerAssessmentService.calculate_riasec_scores, from given totals
ScoresFrom(responses, framework, totals) ==
    LET t == Accumulate(responses, framework, totals)
    IN  [raised |-> t.raised,
         scores |-> IF t.raised THEN [c \in Codes |-> Ratio(0, 1)]
                    ELSE [c \in Codes |-> NormalizedScore(t.scores[c], t.weights[c])]]

\* CareerAssessmentService.calculate_riasec_scores
calculate_riasec_scores(responses, framework) ==
    ScoresFrom(responses, framework, ZeroTotals)

\* Mutant of InsertRanked: an item goes before the items of equal score.
InsertRanked_tiesFirst(ranked, code, scores) ==
    LET before == SelectSeq(ranked, LAMBDA c : RatioLess(scores[code], scores[c]))
        after  == SelectSeq(ranked, LAMBDA c : ~RatioLess(scores[code], scores[c]))
    IN  before \o <<code>> \o after

\* One item placed into a list ranked by score, descending: after every item
\* whose score is not smaller (sorted(..., reverse=True) is stable).
InsertRanked(ranked, code, scores) ==
    LET before == SelectSeq(ranked, LAMBDA c : ~RatioLess(scores[c], scores[code]))
        after  == SelectSeq(ranked, LAMBDA c : RatioLess(scores[c], scores[code]))
    IN  before \o <<code>> \o after

\* sorted(riasec_scores.items(), key=lambda x: x[1], reverse=True), the codes
RECURSIVE RankFrom(_, _, _)
RankFrom(ranked, items, scores) ==
    IF items = <<>> THEN ranked
    ELSE RankFrom(InsertRanked(ranked, Head(items), scores), Tail(items), scores)

Ranked(scores) == RankFrom(<<>>, RIASEC, scores)

\* riasec_profile: the codes of the first three items
TopProfile(scores) == SubSeq(Ranked(scores), 1, 3)

NoResult == [calls |-> 0, raised |-> FALSE, scores |-> [c \in Codes |-> Ratio(0, 1)]]

NoRecommendation == [made |-> FALSE, llm_ok |-> FALSE, riasec_profile |-> <<>>,
                     prompt_profile |-> <<>>, riasec_scores |-> [c \in Codes |-> Ratio(0, 1)]]

\* What the second-phase LLM call may answer as riasec_profile.
LlmProfiles == {<<"R", "I", "A">>, <<"S", "E", "C">>}

InitEvalIdle ==
    /\ futures = <<>>
    /\ evalResponses = <<>>
    /\ evalPc = "idle"
    /\ assessmentTable = <<>>

InitRiasecIdle ==
    /\ framework_df = <<>>
    /\ assessment_responses = <<>>
    /\ riasecResult = NoResult
    /\ recommendation = NoRecommendation

\* Mutant of Calculate: the totals live on the service instance and are not
\* reset, so a call starts from the scores of the call before.
Calculate_keepsTotals ==
    /\ riasecResult.calls < MaxCalls
    /\ ~recommendation.made
    /\ LET start == [ZeroTotals EXCEPT !.scores =
                        [c \in Codes |-> (riasecResult.scores[c].num * 2 * ConfOne)
                                            \div riasecResult.scores[c].den]]
           res   == ScoresFrom(assessment_responses, framework_df, start)
       IN  riasecResult' = [calls |-> riasecResult.calls + 1,
                            raised |-> res.raised, scores |-> res.scores]
    /\ UNCHANGED <<framework_df, assessment_responses, recommendation, predictVars, dbVars, evalVars>>

\* One call calculate_riasec_scores(assessment_responses, framework_df) on
\* the service instance.
Calculate ==
    /\ riasecResult.calls < MaxCalls
    /\ ~recommendation.made
    /\ LET res == calculate_riasec_scores(assessment_responses, framework_df)
       IN  riasecResult' = [calls |-> riasecResult.calls + 1,
                            raised |-> res.raised, scores |-> res.scores]
    /\ UNCHANGED <<framework_df, assessment_responses, recommendation, predictVars, dbVars, evalVars>>

\* CareerAssessmentService.generate_final_recommendation on the scores of the
\* call before: the profile is computed locally and put into the prompt; the
\* result carries the LLM's profile when the call succeeds and the local one
\* when it fails.
Recommend(llm_ok, llm_profile) ==
    /\ riasecResult.calls = 1
    /\ ~riasecResult.raised
    /\ ~recommendation.made
    /\ LET riasec_profile == TopProfile(riasecResult.scores)
       IN  recommendation' =
              [made |-> TRUE, llm_ok |-> llm_ok,
               riasec_profile |-> IF llm_ok THEN llm_profile ELSE riasec_profile,
               prompt_profile |-> riasec_profile,
               riasec_scores |-> riasecResult.scores]
    /\ UNCHANGED <<framework_df, assessment_responses, riasecResult, predictVars, dbVars, evalVars>>

----------------------------------------------------------------------------
(* SpecPredict: predict_grade_12 on grade tables drawn from a bounded set *)

\* Python's sorted(..., key=predicted_score, reverse=True) is stable: a
\* prediction goes behind every one with a score at least as high.
InsertByScore(sorted_preds, p) ==
    LET k == Cardinality({i \in 1..Len(sorted_preds) :
                            sorted_preds[i].predicted_score >= p.predicted_score})
    IN  SubSeq(sorted_preds, 1, k) \o <<p>> \o SubSeq(sorted_preds, k + 1, Len(sorted_preds))

RECURSIVE SortByScore(_, _)
SortByScore(done, predictions) ==
    IF predictions = <<>> THEN done
    ELSE SortByScore(InsertByScore(done, Head(predictions)), Tail(predictions))

SubjectsOf(predictions) == [i \in 1..Len(predictions) |-> predictions[i].subject]

\* The default threshold of analyze_student_strengths (8.0) and the fixed
\* bounds 7.0 (weak) and 0.7 (R2), on the fixed-point grid.
StrongThreshold == 8 * Scale
WeakBound == 7 * Scale
LowR2(r2_score) == 10 * r2_score < 7 * Scale

\* Mutant of analyze_student_strengths: a predicted score of exactly 7.0
\* counts as weak.
analyze_student_strengths_weakInclusive(predictions, threshold) ==
    IF predictions = <<>>
    THEN [strong_subjects |-> <<>>, weak_subjects |-> <<>>,
          average_predicted_score |-> Ratio(0, 1), top_subject |-> "None",
          improvement_areas |-> <<>>]
    ELSE LET sorted_preds == SortByScore(<<>>, predictions)
         IN  [strong_subjects |->
                 SubjectsOf(SelectSeq(sorted_preds, LAMBDA p : p.predicted_score >= threshold)),
              weak_subjects |->
                 SubjectsOf(SelectSeq(sorted_preds, LAMBDA p : p.predicted_score <= WeakBound)),
              average_predicted_score |->
                 Ratio(Sum([i \in 1..Len(predictions) |-> predictions[i].predicted_score]),
                       Len(predictions)),
              top_subject |-> sorted_preds[1].subject,
              improvement_areas |->
                 SubjectsOf(SelectSeq(predictions, LAMBDA p :
                     LowR2(p.r2_score) \/ p.predicted_score < WeakBound))]

\* PredictionService.analyze_student_strengths
analyze_student_strengths(predictions, threshold) ==
    IF predictions = <<>>
    THEN [strong_subjects |-> <<>>, weak_subjects |-> <<>>,
          average_predicted_score |-> Ratio(0, 1), top_subject |-> "None",
          improvement_areas |-> <<>>]
    ELSE LET sorted_preds == SortByScore(<<>>, predictions)
         IN  [strong_subjects |->
                 SubjectsOf(SelectSeq(sorted_preds, LAMBDA p : p.predicted_score >= threshold)),
              weak_subjects |->
                 SubjectsOf(SelectSeq(sorted_preds, LAMBDA p : p.predicted_score < WeakBound)),
              average_predicted_score |->
                 Ratio(Sum([i \in 1..Len(predictions) |-> predictions[i].predicted_score]),
                       Len(predictions)),
              top_subject |-> sorted_preds[1].subject,
              improvement_areas |->
                 SubjectsOf(SelectSeq(predictions, LAMBDA p :
                     LowR2(p.r2_score) \/ p.predicted_score < WeakBound))]

NoAnalysis == [made |-> FALSE, result |-> analyze_student_strengths(<<>>, StrongThreshold)]

NoTrend == [made |-> FALSE, subject |-> "None", has_model |-> FALSE,
            historical_grades |-> <<>>, historical_scores |-> <<>>,
            metrics |-> [r2_score |-> 0, mae |-> 0, data_points |-> 0],
            predicted_grade_12 |-> 0, trend_line_grades |-> <<>>, trend_line_scores |-> <<>>]

\* subject_df.sort_values('grade_level'): a row goes behind every row of the
\* same or a lower grade level.
InsertByGrade(sorted_df, row) ==
    LET k == Cardinality({i \in 1..Len(sorted_df) : sorted_df[i].grade_level <= row.grade_level})
    IN  SubSeq(sorted_df, 1, k) \o <<row>> \o SubSeq(sorted_df, k + 1, Len(sorted_df))

RECURSIVE SortByGrade(_, _)
SortByGrade(done, df) ==
    IF df = <<>> THEN done ELSE SortByGrade(InsertByGrade(done, Head(df)), Tail(df))

\* list(range(1, 13))
AllGrades == [g \in 1..12 |-> g]

\* Mutant of get_trend_data: the trend line stops at grade 11.
get_trend_data_upTo11(ms, df, subject) ==
    LET subject_df == SortByGrade(<<>>, SubjectDf(df, subject))
        model      == ms[subject]
        has_model  == model.kind = "model"
    IN  [made |-> TRUE, subject |-> subject, has_model |-> has_model,
         historical_grades |-> GradeLevelColumn(subject_df),
         historical_scores |-> ScoreColumn(subject_df),
         predicted_grade_12 |-> IF has_model THEN ClipScore(ModelPredict(model, 12)) ELSE 0,
         metrics |-> [r2_score |-> model.r2_score, mae |-> model.mae,
                      data_points |-> model.data_points],
         trend_line_grades |-> IF has_model THEN SubSeq(AllGrades, 1, 11) ELSE <<>>,
         trend_line_scores |->
             IF has_model THEN [g \in 1..11 |-> ClipScore(ModelPredict(model, AllGrades[g]))]
             ELSE <<>>]

\* PredictionService.get_trend_data: the rows of the subject by grade level,
\* and from self.models[subject], when there is one, the clipped prediction
\* for grade 12 and the clipped line at the grades 1..12.
get_trend_data(ms, df, subject) ==
    LET subject_df == SortByGrade(<<>>, SubjectDf(df, subject))
        model      == ms[subject]
        has_model  == model.kind = "model"
    IN  [made |-> TRUE, subject |-> subject, has_model |-> has_model,
         historical_grades |-> GradeLevelColumn(subject_df),
         historical_scores |-> ScoreColumn(subject_df),
         predicted_grade_12 |-> IF has_model THEN ClipScore(ModelPredict(model, 12)) ELSE 0,
         metrics |-> [r2_score |-> model.r2_score, mae |-> model.mae,
                      data_points |-> model.data_points],
         trend_line_grades |-> IF has_model THEN AllGrades ELSE <<>>,
         trend_line_scores |->
             IF has_model THEN [g \in 1..12 |-> ClipScore(ModelPredict(model, AllGrades[g]))]
             ELSE <<>>]

InitAnalysisIdle ==
    /\ analysisInput = <<>>
    /\ analysis = NoAnalysis

GradeRows == [student_id : {"s1"}, subject : Subjects,
              grade_level : GradeLevels, score : Scores]

NotCalled == [called |-> FALSE, raised |-> FALSE, value |-> <<>>]

NoDelete == [student |-> "none", returned |-> FALSE, rows |-> 0, kept |-> 0]

\* None
None == <<"None">>

NoUser == [username |-> None, email |-> None, password |-> None, is_active |-> FALSE]

NoCall == [op |-> "none", username |-> None, password |-> None, email |-> None,
           raised |-> "none", user |-> NoUser]

InitUsersIdle ==
    /\ usersTable = {}
    /\ userSession = {}
    /\ authResult = NoCall

InitStudentsIdle ==
    /\ studentsTable = Students
    /\ recommendationsTable = {}
    /\ lastDelete = NoDelete
    /\ InitUsersIdle

InitDbIdle ==
    /\ gradesTable = EmptyBag
    /\ predictionsTable = EmptyBag
    /\ lastRun = [student |-> "none", repeat |-> FALSE]
    /\ InitStudentsIdle

InitPredict ==
    /\ grades_df \in SeqsUpTo(GradeRows, MaxRows)
    /\ predictResult = NotCalled
    /\ models = [s \in Subjects |-> NoModel]
    /\ InitAnalysisIdle
    /\ trend = NoTrend
    /\ InitDbIdle
    /\ InitRiasecIdle
    /\ InitEvalIdle

\* One call predict_grade_12("s1", grades_df) on the service instance.
Predict ==
    /\ ~predictResult.called
    /\ LET res == predict_grade_12("s1", grades_df)
       IN  predictResult' = [called |-> TRUE, raised |-> res.raised, value |-> res.value]
    /\ models' = ModelsAfterPredict(models, grades_df)
    /\ UNCHANGED <<grades_df, analysisInput, analysis, trend, dbVars, riasecVars, evalVars>>

\* One call get_trend_data(grades_df, subject) of get_all_trends, on the
\* service instance that made the predictions.
GetTrend(subject) ==
    /\ predictResult.called
    /\ ~predictResult.raised
    /\ \E i \in 1..Len(grades_df) : grades_df[i].subject = subject
    /\ trend' = get_trend_data(models, grades_df, subject)
    /\ UNCHANGED <<grades_df, predictResult, models, analysisInput, analysis,
                   dbVars, riasecVars, evalVars>>

NextPredict ==
    \/ Predict
    \/ \E subject \in Subjects : GetTrend(subject)

SpecPredict == InitPredict /\ [][NextPredict]_vars

----------------------------------------------------------------------------
(* Claims about predict_grade_12 (SpecPredict) *)

SubjectEntries(preds, subject) == SelectSeq(preds, LAMBDA p : p.subject = subject)

\* C1: every prediction returned by predict_grade_12 satisfies
\* 0 <= confidence_lower <= predicted_score <= confidence_upper <= 10.
C1_PredictionBand ==
    predictResult.called =>
        \A i \in 1..Len(predictResult.value) :
            LET p == predictResult.value[i]
            IN  /\ MinScore <= p.confidence_lower
                /\ p.confidence_lower <= p.predicted_score
                /\ p.predicted_score <= p.confidence_upper
                /\ p.confidence_upper <= MaxScore

\* C1 witness: a returned prediction whose fitted line at grade 12 lies
\* above 10 (the clamp acted), with a band that is not degenerate.
C1_Witness ==
    /\ predictResult.called
    /\ \E i \in 1..Len(predictResult.value) :
        LET p == predictResult.value[i]
            m == train_model_for_subject(grades_df, p.subject)
        IN  /\ ModelPredict(m, 12) > MaxScore
            /\ p.confidence_lower < p.predicted_score

\* C2: on a non-empty table the call returns without raising, with no entry
\* for a subject that has fewer than 2 rows and exactly one entry for every
\* subject that has at least 2 rows.
C2_SparseSubjectsSkipped ==
    (predictResult.called /\ grades_df # <<>>) =>
        /\ ~predictResult.raised
        /\ \A subject \in Subjects :
            Len(SubjectEntries(predictResult.value, subject))
                = (IF Len(SubjectDf(grades_df, subject)) >= 2 THEN 1 ELSE 0)

\* C2 witness: a table mixing a sparse subject with a non-sparse one whose
\* fit explains nothing (R2 = 0), after the call.
C2_Witness ==
    /\ predictResult.called
    /\ \E sparse, dense \in Subjects :
        /\ Len(SubjectDf(grades_df, sparse)) = 1
        /\ Len(SubjectDf(grades_df, dense)) >= 2
        /\ Len(predictResult.value) = 1
        /\ predictResult.value[1].subject = dense
        /\ predictResult.value[1].r2_score = 0

----------------------------------------------------------------------------
(* DatabaseService and the dashboard page (Spec)                           *)
(*                                                                         *)
(* A table is the bag of its rows' column values: the autoincrement id and *)
(* the timestamp of a row are left out, so two rows with equal columns are *)
(* two copies of one element.  update_grade and delete_grade address a row *)
(* by its id, here by its values (any one of the equal copies).            *)

NoRun == [student |-> "none", repeat |-> FALSE]

SubjectKey(subject) == CHOOSE i \in 1..Len(SubjectOrder) : SubjectOrder[i] = subject

\* ORDER BY grade_level, subject (rows equal in both: by score, any fixed
\* order would do)
GradeBefore(a, b) ==
    \/ a.grade_level < b.grade_level
    \/ a.grade_level = b.grade_level /\ SubjectKey(a.subject) < SubjectKey(b.subject)
    \/ a.grade_level = b.grade_level /\ a.subject = b.subject /\ a.score < b.score

RECURSIVE OrderRows(_)
OrderRows(bag) ==
    IF bag = EmptyBag THEN <<>>
    ELSE LET first == CHOOSE r \in BagToSet(bag) :
                          \A q \in BagToSet(bag) : ~GradeBefore(q, r)
         IN  <<first>> \o OrderRows(bag (-) SetToBag({first}))

\* The rows of a table that belong to one student.
StudentRows(table, student_id) ==
    LET keep == {r \in BagToSet(table) : r.student_id = student_id}
    IN  [r \in keep |-> table[r]]

\* The rows of a table that belong to the other students.
OtherRows(table, student_id) ==
    LET keep == {r \in BagToSet(table) : r.student_id # student_id}
    IN  [r \in keep |-> table[r]]

\* DatabaseService.get_student_grades / get_student_grades_df
get_student_grades_df(grades, student_id) == OrderRows(StudentRows(grades, student_id))

\* DatabaseService.get_student_predictions
get_student_predictions(table, student_id) == StudentRows(table, student_id)

\* The Prediction row save_predictions builds from a prediction dictionary.
PredictionRow(student_id, pred) ==
    [student_id |-> student_id,
     subject |-> pred.subject,
     predicted_score |-> pred.predicted_score,
     confidence_lower |-> pred.confidence_lower,
     confidence_upper |-> pred.confidence_upper,
     model_version |-> pred.model_version]

RECURSIVE PredictionRows(_, _)
PredictionRows(student_id, predictions) ==
    IF predictions = <<>> THEN EmptyBag
    ELSE SetToBag({PredictionRow(student_id, Head(predictions))})
            (+) PredictionRows(student_id, Tail(predictions))

\* Mutant of save_predictions: the old rows are not deleted.
save_predictions_keepsOld(table, student_id, predictions) ==
    table (+) PredictionRows(student_id, predictions)

\* Mutant of save_predictions: the delete has no filter on the student.
save_predictions_deletesAll(table, student_id, predictions) ==
    PredictionRows(student_id, predictions)

\* DatabaseService.save_predictions: delete the student's rows, add one row
\* per prediction, commit.
save_predictions(table, student_id, predictions) ==
    OtherRows(table, student_id) (+) PredictionRows(student_id, predictions)

\* The dashboard page's regeneration: a fresh PredictionService predicts on
\* the student's grades and the result is saved only when it is non-empty.
\* (The page stops before this when the student has no grade at all.)
DashboardSaved(table, student_id, df) ==
    LET res == predict_grade_12(student_id, df)
    IN  IF ~res.raised /\ res.value # <<>>
        THEN save_predictions(table, student_id, res.value)
        ELSE table

GradeRow(student_id, subject, grade_level, score) ==
    [student_id |-> student_id, subject |-> subject,
     grade_level |-> grade_level, score |-> score]

InitPredictIdle ==
    /\ grades_df = <<>>
    /\ predictResult = NotCalled
    /\ models = [s \in Subjects |-> NoModel]
    /\ InitAnalysisIdle
    /\ trend = NoTrend

Init ==
    /\ gradesTable = EmptyBag
    /\ predictionsTable = EmptyBag
    /\ lastRun = NoRun
    /\ InitStudentsIdle
    /\ InitPredictIdle
    /\ InitRiasecIdle
    /\ InitEvalIdle

\* DatabaseService.add_grade
AddGrade(student_id, subject, grade_level, score) ==
    /\ BagCardinality(gradesTable) < MaxGrades
    /\ gradesTable' = gradesTable (+) SetToBag({GradeRow(student_id, subject, grade_level, score)})
    /\ lastRun' = NoRun
    /\ UNCHANGED <<predictionsTable, studentVars, authVars, predictVars, riasecVars, evalVars>>

\* DatabaseService.update_grade on a stored row (subject, grade_level, score)
UpdateGrade(row, subject, grade_level, score) ==
    /\ BagIn(row, gradesTable)
    /\ row # GradeRow(row.student_id, subject, grade_level, score)
    /\ gradesTable' = (gradesTable (-) SetToBag({row}))
                        (+) SetToBag({GradeRow(row.student_id, subject, grade_level, score)})
    /\ lastRun' = NoRun
    /\ UNCHANGED <<predictionsTable, studentVars, authVars, predictVars, riasecVars, evalVars>>

\* DatabaseService.delete_grade on a stored row
DeleteGrade(row) ==
    /\ BagIn(row, gradesTable)
    /\ gradesTable' = gradesTable (-) SetToBag({row})
    /\ lastRun' = NoRun
    /\ UNCHANGED <<predictionsTable, studentVars, authVars, predictVars, riasecVars, evalVars>>

\* DatabaseService.delete_student_grades
DeleteStudentGrades(student_id) ==
    /\ StudentRows(gradesTable, student_id) # EmptyBag
    /\ gradesTable' = OtherRows(gradesTable, student_id)
    /\ lastRun' = NoRun
    /\ UNCHANGED <<predictionsTable, studentVars, authVars, predictVars, riasecVars, evalVars>>

\* One run of the dashboard page for a student who has grades: predict, then
\* persist.
DashboardRun(student_id) ==
    LET df == get_student_grades_df(gradesTable, student_id)
    IN  /\ df # <<>>
        /\ predictionsTable' = DashboardSaved(predictionsTable, student_id, df)
        /\ lastRun' = [student |-> student_id, repeat |-> lastRun.student = student_id]
        /\ UNCHANGED <<gradesTable, studentVars, authVars, predictVars, riasecVars, evalVars>>

Next ==
    \/ \E st \in Students, su \in Subjects, pt \in DbPoints :
            AddGrade(st, su, pt[1], pt[2])
    \/ \E row \in DOMAIN gradesTable, su \in Subjects, pt \in DbPoints :
            UpdateGrade(row, su, pt[1], pt[2])
    \/ \E row \in DOMAIN gradesTable : DeleteGrade(row)
    \/ \E st \in Students : DeleteStudentGrades(st)
    \/ \E st \in Students : DashboardRun(st)

Spec == Init /\ [][Next]_vars

----------------------------------------------------------------------------
(* Claims about prediction regeneration (Spec) *)

\* A student's stored prediction rows.
StoredPredictions(student_id) == get_student_predictions(predictionsTable, student_id)

\* The rows a run on the student's current grades computes.
ComputedRows(student_id) ==
    PredictionRows(student_id,
        predict_grade_12(student_id, get_student_grades_df(gradesTable, student_id)).value)

\* C6 (as claimed): right after a regeneration for a student, the student's
\* stored prediction rows are exactly the predictions computed in that run.
C6_StoredIsLatestRun ==
    lastRun.student \in Students =>
        StoredPredictions(lastRun.student) = ComputedRows(lastRun.student)

\* C7: a regeneration that directly follows a regeneration for the same
\* student (so on unchanged grades) leaves the student's stored prediction
\* records as they were: same count, same values.
C7_RegenerationIdempotent ==
    [][\A st \in Students :
          (DashboardRun(st) /\ lastRun.student = st) =>
              get_student_predictions(predictionsTable', st)
                  = get_student_predictions(predictionsTable, st)]_vars

\* C7 witness: a second regeneration in a row has run for a student who has
\* stored predictions.
C7_Witness ==
    /\ lastRun.student \in Students
    /\ lastRun.repeat
    /\ StoredPredictions(lastRun.student) # EmptyBag

----------------------------------------------------------------------------
(* SpecRiasec: calculate_riasec_scores on inputs drawn from bounded sets *)

Responses ==
    [question_id : ResponseQuestionIds, answer : Answers,
     has_confidence : {TRUE}, confidence_score : Confidences]
    \cup [question_id : ResponseQuestionIds, answer : Answers,
          has_confidence : {FALSE}, confidence_score : {0}]

\* Frameworks of two questions with ids 1 and 2.
Frameworks ==
    { << [id |-> 1, riasec_code |-> c1, weight |-> 1],
         [id |-> 2, riasec_code |-> c2, weight |-> w2] >> :
        c1 \in {"R", "A"}, c2 \in {"R", "C"}, w2 \in Weights }

InitRiasec ==
    /\ framework_df \in Frameworks
    /\ assessment_responses \in SeqsUpTo(Responses, MaxResponses)
    /\ riasecResult = NoResult
    /\ recommendation = NoRecommendation
    /\ InitPredictIdle
    /\ InitDbIdle
    /\ InitEvalIdle

NextRiasec ==
    \/ Calculate
    \/ \E p \in LlmProfiles : Recommend(TRUE, p)
    \/ Recommend(FALSE, <<>>)

SpecRiasec == InitRiasec /\ [][NextRiasec]_vars

----------------------------------------------------------------------------
(* Claims about calculate_riasec_scores and the profile (SpecRiasec) *)

\* The responses of a list that resolve to a framework question of a category.
CategoryResponses(responses, framework, code) ==
    SelectSeq(responses, LAMBDA r :
        \E i \in 1..Len(framework) :
            framework[i].id = r.question_id /\ framework[i].riasec_code = code)

WeightOf(framework, question_id) ==
    (CHOOSE q \in {framework[i] : i \in 1..Len(framework)} : q.id = question_id).weight

AllResolved(responses, framework) ==
    \A i \in 1..Len(responses) :
        \E j \in 1..Len(framework) : framework[j].id = responses[i].question_id

\* The credit of a response as the specification states it, in units of
\* 1/(2 * ConfOne): 1.0 for Yes, 0.5 for Partial, 0.0 otherwise, times the
\* confidence (0.8 when absent, clamped into [0, 1]).
SpecCredit(r) ==
    LET conf == IF ~r.has_confidence THEN DefaultConfidence
                ELSE IF r.confidence_score > ConfOne THEN ConfOne
                ELSE IF r.confidence_score < 0 THEN 0
                ELSE r.confidence_score
    IN  CASE r.answer = "Yes" -> 2 * conf
          [] r.answer = "Partial" -> conf
          [] OTHER -> 0

\* The score of every category with at least one response is the weighted
\* average of the credits: s * sum(weight_i) = 100 * sum(credit_i * weight_i).
WeightedAverage(scores) ==
        \A code \in Codes :
            LET rs == CategoryResponses(assessment_responses, framework_df, code)
                W  == Sum([i \in 1..Len(rs) |-> WeightOf(framework_df, rs[i].question_id)])
                N  == Sum([i \in 1..Len(rs) |->
                            SpecCredit(rs[i]) * WeightOf(framework_df, rs[i].question_id)])
                s  == scores[code]
            IN  rs # <<>> => s.num * (2 * ConfOne * W) = 100 * N * s.den

\* C3: every call calculate_riasec_scores returns, and returns for each
\* category with at least one response the value
\* 100 * sum(credit_i * weight_i) / sum(weight_i) over that category's
\* responses.
C3_WeightedAverage ==
    riasecResult.calls >= 1 =>
        /\ ~riasecResult.raised
        /\ WeightedAverage(riasecResult.scores)

\* Every call that returns has returned the weighted averages.
ReturnedWeightedAverage ==
    (riasecResult.calls >= 1 /\ ~riasecResult.raised) =>
        WeightedAverage(riasecResult.scores)

\* A category with two responses of different weights, a Yes and a Partial,
\* has been scored.
WeightedAverageReached ==
    /\ riasecResult.calls >= 1
    /\ ~riasecResult.raised
    /\ \E code \in Codes :
        LET rs == CategoryResponses(assessment_responses, framework_df, code)
        IN  /\ Len(rs) = 2
            /\ rs[1].answer = "Yes" /\ rs[2].answer = "Partial"
            /\ WeightOf(framework_df, rs[1].question_id)
                  # WeightOf(framework_df, rs[2].question_id)

\* The six keys R, I, A, S, E, C, each with a defined score in [0, 100], and
\* 0 for a category no response resolves to.
SixScoresInRange(scores) ==
    /\ DOMAIN scores = {"R", "I", "A", "S", "E", "C"}
    /\ \A code \in DOMAIN scores :
        LET s == scores[code]
        IN  /\ s.den > 0
            /\ 0 <= s.num
            /\ s.num <= 100 * s.den
            /\ CategoryResponses(assessment_responses, framework_df, code) = <<>>
                  => s.num = 0

\* C4: every call calculate_riasec_scores returns exactly the six keys R, I,
\* A, S, E, C, each with a score in [0, 100], and a category with no matching
\* response scores exactly 0, the empty response list included.
C4_SixScoresInRange ==
    riasecResult.calls >= 1 =>
        /\ ~riasecResult.raised
        /\ SixScoresInRange(riasecResult.scores)

\* A call whose responses all resolve returns (also on the empty list), and
\* every call that returns has returned six scores in range.
ResolvedSixScoresInRange ==
    riasecResult.calls >= 1 =>
        /\ AllResolved(assessment_responses, framework_df) => ~riasecResult.raised
        /\ ~riasecResult.raised => SixScoresInRange(riasecResult.scores)

\* The empty response list has been scored.
EmptyListScored ==
    /\ riasecResult.calls >= 1
    /\ ~riasecResult.raised
    /\ assessment_responses = <<>>

\* A call with a Yes of out-of-range confidence has returned.
ClampedConfidenceScored ==
    /\ riasecResult.calls >= 1
    /\ ~riasecResult.raised
    /\ \E i \in 1..Len(assessment_responses) :
        /\ assessment_responses[i].answer = "Yes"
        /\ assessment_responses[i].has_confidence
        /\ assessment_responses[i].confidence_score > ConfOne

\* The responses of a list that resolve to a framework question.
ResolvedResponses(responses, framework) ==
    SelectSeq(responses, LAMBDA r :
        \E j \in 1..Len(framework) : framework[j].id = r.question_id)

\* C5 (as claimed): a call with a response whose question_id is absent from
\* the framework does not raise and returns the scores of the remaining
\* responses.
C5_UnresolvedSkipped ==
    riasecResult.calls >= 1 =>
        /\ ~riasecResult.raised
        /\ riasecResult.scores =
              calculate_riasec_scores(
                  ResolvedResponses(assessment_responses, framework_df), framework_df).scores

\* The number of codes that come before a code when the categories are
\* ordered by score descending, ties broken by the order R, I, A, S, E, C.
Before(scores, c) ==
    Cardinality({RIASEC[j] : j \in {j \in 1..Len(RIASEC) :
        \/ RatioLess(scores[c], scores[RIASEC[j]])
        \/ /\ ~RatioLess(scores[RIASEC[j]], scores[c])
           /\ \E i \in 1..Len(RIASEC) : RIASEC[i] = c /\ j < i}})

\* C8: the locally computed profile holds three codes, and the code at
\* position k is the one that exactly k - 1 codes come before when the six
\* categories are ordered by score descending with ties broken by the order
\* R, I, A, S, E, C; the profile is a function of the scores alone.
C8_ProfileTopThree ==
    recommendation.made =>
        /\ Len(recommendation.prompt_profile) = 3
        /\ \A k \in 1..3 :
              Before(recommendation.riasec_scores, recommendation.prompt_profile[k]) = k - 1
        /\ ~recommendation.llm_ok =>
              recommendation.riasec_profile = recommendation.prompt_profile

\* C8 witness: a profile has been computed from scores where two later codes
\* tie with a nonzero score above R.
C8_Witness ==
    /\ recommendation.made
    /\ recommendation.prompt_profile[1] # "R"
    /\ recommendation.riasec_scores[recommendation.prompt_profile[1]].num > 0
    /\ recommendation.riasec_scores[recommendation.prompt_profile[1]]
          = recommendation.riasec_scores[recommendation.prompt_profile[2]]

----------------------------------------------------------------------------
(* SpecEval: the assessment run of the page; evaluate_all_questions on a
   thread pool, then save_assessment_responses and calculate_riasec_scores *)

\* What the LLM call of one question may come to: a parsed answer with a
\* confidence (QuestionResponse.confidence_score is Optional: it may be
\* None), or an exception.
LlmOutcomes ==
    { [ok |-> TRUE, answer |-> "Yes", has_confidence |-> TRUE, confidence_score |-> 0],
      [ok |-> TRUE, answer |-> "Partial", has_confidence |-> TRUE, confidence_score |-> 150],
      [ok |-> TRUE, answer |-> "No", has_confidence |-> TRUE, confidence_score |-> 50],
      [ok |-> TRUE, answer |-> "Partial", has_confidence |-> TRUE, confidence_score |-> -50],
      [ok |-> TRUE, answer |-> "Yes", has_confidence |-> FALSE, confidence_score |-> 0],
      [ok |-> FALSE, answer |-> "", has_confidence |-> FALSE, confidence_score |-> 0] }

\* CareerAssessmentService.evaluate_single_question: the response of one
\* question.  A confidence of None or 0 is falsy and becomes the default;
\* an exception becomes an Error response with confidence 0.
evaluate_single_question(question_id, outcome) ==
    IF outcome.ok
    THEN [question_id |-> question_id, answer |-> outcome.answer,
          has_confidence |-> TRUE,
          confidence_score |->
              Max2(0, Min2(ConfOne, IF outcome.has_confidence /\ outcome.confidence_score # 0
                                    THEN outcome.confidence_score
                                    ELSE DefaultConfidence))]
    ELSE [question_id |-> question_id, answer |-> "Error",
          has_confidence |-> TRUE, confidence_score |-> 0]

NoResponse == [question_id |-> 0, answer |-> "", has_confidence |-> FALSE, confidence_score |-> 0]

NoOutcome == [ok |-> FALSE, answer |-> "", has_confidence |-> FALSE, confidence_score |-> 0]

\* The student of the assessment run, as the page passes it to every
\* evaluation.
EvalStudentName == "name of s1"

EvalStudentProfile == "profile of s1"

\* The arguments executor.submit gives to evaluate_single_question for a
\* framework row, which make up the prompt: the student's name and profile
\* and the row's question (by id) and riasec_code (with its metadata).
TaskInput(student_name, student_profile, row) ==
    [student_name |-> student_name, student_profile |-> student_profile,
     question_id |-> row.id, riasec_code |-> row.riasec_code]

\* Mutant of RunTask: the exception of the LLM call is not caught and ends
\* the task.
RunTask_propagates(question_id, outcome) ==
    IF outcome.ok
    THEN [exception |-> FALSE, result |-> evaluate_single_question(question_id, outcome)]
    ELSE [exception |-> TRUE, result |-> NoResponse]

\* The task of one future: evaluate_single_question catches every exception
\* of the LLM call, so the future holds a response, never an exception.
RunTask(question_id, outcome) ==
    [exception |-> FALSE, result |-> evaluate_single_question(question_id, outcome)]

\* Frameworks of three questions with ids 1, 2 and 3.
EvalFrameworks ==
    { << [id |-> 1, riasec_code |-> "R", weight |-> 1],
         [id |-> 2, riasec_code |-> "I", weight |-> 1],
         [id |-> 3, riasec_code |-> c3, weight |-> 2] >> : c3 \in {"R", "C"} }

EvalStudent == "s1"

Running == {i \in DOMAIN futures : futures[i].state = "running"}

Pending == {i \in DOMAIN futures : futures[i].state = "pending"}

InitEval ==
    /\ framework_df \in EvalFrameworks
    /\ assessment_responses = <<>>
    /\ riasecResult = NoResult
    /\ recommendation = NoRecommendation
    /\ futures = <<>>
    /\ evalResponses = <<>>
    /\ evalPc = "submit"
    /\ assessmentTable = <<>>
    /\ InitPredictIdle
    /\ InitDbIdle

\* Mutant of Submit: the answers evaluated so far are put into the prompt of
\* the next question.
Submit_sharedContext ==
    /\ evalPc = "submit"
    /\ Len(futures) < Len(framework_df)
    /\ futures' = Append(futures,
          [state |-> "pending",
           input |-> [student_name |-> EvalStudentName,
                      student_profile |-> EvalStudentProfile,
                      question_id |-> framework_df[Len(futures) + 1].id,
                      riasec_code |-> framework_df[Len(futures) + 1].riasec_code,
                      context |-> {futures[j].result.answer : j \in DOMAIN futures}],
           outcome |-> NoOutcome, exception |-> FALSE, result |-> NoResponse])
    /\ evalPc' = IF Len(futures) + 1 = Len(framework_df) THEN "collect" ELSE "submit"
    /\ UNCHANGED <<evalResponses, assessmentTable, riasecVars, predictVars, dbVars>>

\* executor.submit of the next framework row; after the last row the main
\* thread goes on to the as_completed loop.
Submit ==
    /\ evalPc = "submit"
    /\ Len(futures) < Len(framework_df)
    /\ futures' = Append(futures,
          [state |-> "pending",
           input |-> TaskInput(EvalStudentName, EvalStudentProfile,
                               framework_df[Len(futures) + 1]),
           outcome |-> NoOutcome, exception |-> FALSE, result |-> NoResponse])
    /\ evalPc' = IF Len(futures) + 1 = Len(framework_df) THEN "collect" ELSE "submit"
    /\ UNCHANGED <<evalResponses, assessmentTable, riasecVars, predictVars, dbVars>>

\* A worker thread takes the oldest queued task; at most max_workers run.
Start(i) ==
    /\ i \in Pending
    /\ \A j \in Pending : i <= j
    /\ Cardinality(Running) < MaxWorkers
    /\ futures' = [futures EXCEPT ![i].state = "running"]
    /\ UNCHANGED <<evalResponses, evalPc, assessmentTable, riasecVars, predictVars, dbVars>>

\* The task of a worker returns: evaluate_single_question has its response.
Finish(i, outcome) ==
    /\ i \in Running
    /\ LET task == RunTask(futures[i].input.question_id, outcome)
       IN  futures' = [futures EXCEPT
                        ![i] = [state |-> "done", input |-> futures[i].input,
                                outcome |-> outcome,
                                exception |-> task.exception, result |-> task.result]]
    /\ UNCHANGED <<evalResponses, evalPc, assessmentTable, riasecVars, predictVars, dbVars>>

\* One round of the as_completed loop: a finished future is yielded and its
\* result appended; future.result() raises what the task raised, and that
\* leaves evaluate_all_questions.
Collect(i) ==
    /\ evalPc = "collect"
    /\ i \in DOMAIN futures
    /\ futures[i].state = "done"
    /\ evalResponses' = IF futures[i].exception THEN evalResponses
                        ELSE Append(evalResponses, futures[i].result)
    /\ evalPc' = IF futures[i].exception THEN "raised" ELSE evalPc
    /\ futures' = [futures EXCEPT ![i].state = "collected"]
    /\ UNCHANGED <<assessmentTable, riasecVars, predictVars, dbVars>>

\* Mutant of Return: the loop and the executor do not wait for the futures.
Return_early ==
    /\ evalPc = "collect"
    /\ evalPc' = "returned"
    /\ assessment_responses' = evalResponses
    /\ UNCHANGED <<futures, evalResponses, assessmentTable, framework_df, riasecResult,
                   recommendation, predictVars, dbVars>>

\* The as_completed loop has yielded every future, the with block has joined
\* the workers, and evaluate_all_questions returns its list to the page.
Return ==
    /\ evalPc = "collect"
    /\ \A i \in DOMAIN futures : futures[i].state = "collected"
    /\ evalPc' = "returned"
    /\ assessment_responses' = evalResponses
    /\ UNCHANGED <<futures, evalResponses, assessmentTable, framework_df, riasecResult,
                   recommendation, predictVars, dbVars>>

\* DatabaseService.save_assessment_responses: the student's old rows go, one
\* row per response comes (question_id and answer; no confidence column).
save_assessment_responses(table, student_id, responses) ==
    SelectSeq(table, LAMBDA row : row.student_id # student_id)
        \o [i \in 1..Len(responses) |->
              [student_id |-> student_id, question_id |-> responses[i].question_id,
               answer |-> responses[i].answer]]

\* The page saves the responses and calculates the scores from them.
Score ==
    /\ evalPc = "returned"
    /\ assessmentTable' = save_assessment_responses(assessmentTable, EvalStudent,
                                                    assessment_responses)
    /\ LET res == calculate_riasec_scores(assessment_responses, framework_df)
       IN  riasecResult' = [calls |-> riasecResult.calls + 1,
                            raised |-> res.raised, scores |-> res.scores]
    /\ evalPc' = "scored"
    /\ UNCHANGED <<futures, evalResponses, framework_df, assessment_responses,
                   recommendation, predictVars, dbVars>>

NextEval ==
    \/ Submit
    \/ \E i \in DOMAIN futures : Start(i)
    \/ \E i \in DOMAIN futures, outcome \in LlmOutcomes : Finish(i, outcome)
    \/ \E i \in DOMAIN futures : Collect(i)
    \/ Return
    \/ Score
    \/ \E p \in LlmProfiles : Recommend(TRUE, p)
    \/ Recommend(FALSE, <<>>)

SpecEval == InitEval /\ [][NextEval]_vars

----------------------------------------------------------------------------
(* Claims about the assessment run (SpecEval) *)

\* A response list holds exactly one response per framework row.
OneResponsePerRow(responses, framework) ==
    /\ Len(responses) = Len(framework)
    /\ {responses[i].question_id : i \in 1..Len(responses)}
          = {framework[j].id : j \in 1..Len(framework)}
    /\ \A i, j \in 1..Len(responses) :
          responses[i].question_id = responses[j].question_id => i = j

\* C10: once evaluate_all_questions has returned, every framework row has
\* been submitted and every submitted evaluation has finished, the returned
\* list holds exactly one response per framework row, and the list
\* calculate_riasec_scores is invoked on is that complete list.
C10_JoinBeforeScore ==
    /\ evalPc \in {"returned", "scored"} =>
          /\ Len(futures) = Len(framework_df)
          /\ \A i \in DOMAIN futures :
                /\ futures[i].state \in {"done", "collected"}
                /\ \E k \in 1..Len(assessment_responses) :
                      assessment_responses[k] = futures[i].result
          /\ OneResponsePerRow(assessment_responses, framework_df)
    /\ riasecResult.calls >= 1 =>
          /\ evalPc = "scored"
          /\ OneResponsePerRow(assessment_responses, framework_df)

\* C10 witness: the scores have been calculated after a run where the
\* evaluations finished out of framework order and one of them failed.
C10_Witness ==
    /\ evalPc = "scored"
    /\ riasecResult.calls = 1
    /\ assessment_responses[1].question_id # framework_df[1].id
    /\ \E k \in 1..Len(assessment_responses) : assessment_responses[k].answer = "Error"

\* The response of the returned list for a framework row.
ResponseOf(i) ==
    CHOOSE r \in {assessment_responses[k] : k \in 1..Len(assessment_responses)} :
        r.question_id = framework_df[i].id

\* C11: no exception leaves evaluate_all_questions; the returned list has a
\* response for every question; a question whose LLM call failed has answer
\* 'Error' with confidence_score 0.0, and every other question has the answer
\* and the confidence of its own LLM reply, whichever other questions failed.
C11_FailuresIsolated ==
    /\ evalPc # "raised"
    /\ evalPc \in {"returned", "scored"} =>
          \A i \in DOMAIN futures :
              /\ \E k \in 1..Len(assessment_responses) :
                    assessment_responses[k].question_id = framework_df[i].id
              /\ ~futures[i].outcome.ok =>
                    /\ ResponseOf(i).answer = "Error"
                    /\ ResponseOf(i).confidence_score = 0
              /\ futures[i].outcome.ok =>
                    /\ ResponseOf(i).answer = futures[i].outcome.answer
                    /\ ResponseOf(i).confidence_score >= 0
                    /\ ResponseOf(i).confidence_score <= ConfOne
                    /\ (futures[i].outcome.has_confidence
                            /\ futures[i].outcome.confidence_score \in 1..ConfOne) =>
                          ResponseOf(i).confidence_score = futures[i].outcome.confidence_score

\* C11 witness: a batch where the first question's LLM call failed and
\* another question's succeeded has returned.
C11_Witness ==
    /\ evalPc = "returned"
    /\ ~futures[1].outcome.ok
    /\ \E i \in DOMAIN futures : futures[i].outcome.ok /\ futures[i].outcome.answer = "No"

\* The confidence the specification applies to a response, in units of
\* 1/ConfOne: 0.8 when the response has none, else its own clamped into [0, 1].
AppliedConfidence(r) ==
    CASE ~r.has_confidence -> DefaultConfidence
      [] r.has_confidence /\ r.confidence_score > ConfOne -> ConfOne
      [] r.has_confidence /\ r.confidence_score < 0 -> 0
      [] OTHER -> r.confidence_score

DefaultConfidenceScored ==
    /\ riasecResult.calls >= 1
    /\ ~riasecResult.raised
    /\ Len(assessment_responses) = 1
    /\ assessment_responses[1].answer = "Yes"
    /\ ~assessment_responses[1].has_confidence

\* A response list with every No and Error replaced by an Error without
\* confidence.
NoAsError(responses) ==
    [i \in 1..Len(responses) |->
        IF responses[i].answer \in {"No", "Error"}
        THEN [responses[i] EXCEPT !.answer = "Error", !.has_confidence = FALSE,
                                  !.confidence_score = 0]
        ELSE responses[i]]

\* C13: in a call that returns, a category whose responses are all No or
\* Error scores 0; a category with one Yes (weight w) and one No or Error
\* (weight v) scores 100 * confidence * w / (w + v), the weight of the
\* creditless response included; and the six scores are those of the list
\* with every No turned into an Error of any confidence.
C13_NoAndErrorZeroCredit ==
    (riasecResult.calls >= 1 /\ ~riasecResult.raised) =>
        /\ riasecResult.scores
              = calculate_riasec_scores(NoAsError(assessment_responses), framework_df).scores
        /\ \A code \in Codes :
              LET rs == CategoryResponses(assessment_responses, framework_df, code)
                  s  == riasecResult.scores[code]
              IN  /\ (rs # <<>> /\ \A i \in 1..Len(rs) : rs[i].answer \in {"No", "Error"})
                        => s.num = 0
                  /\ (Len(rs) = 2 /\ rs[1].answer = "Yes" /\ rs[2].answer \in {"No", "Error"})
                        => LET w == WeightOf(framework_df, rs[1].question_id)
                               v == WeightOf(framework_df, rs[2].question_id)
                           IN  s.num * ConfOne * (w + v)
                                  = 100 * AppliedConfidence(rs[1]) * w * s.den

\* C13 witness: a category with a Yes and a No of confidence above 1, of
\* different weights, has been scored above 0.
C13_Witness ==
    /\ riasecResult.calls >= 1
    /\ ~riasecResult.raised
    /\ \E code \in Codes :
        LET rs == CategoryResponses(assessment_responses, framework_df, code)
        IN  /\ Len(rs) = 2
            /\ rs[1].answer = "Yes" /\ rs[2].answer = "No"
            /\ rs[2].has_confidence /\ rs[2].confidence_score > ConfOne
            /\ WeightOf(framework_df, rs[1].question_id)
                  # WeightOf(framework_df, rs[2].question_id)
            /\ riasecResult.scores[code].num > 0

----------------------------------------------------------------------------
(* Claims about the fit (SpecPredict) *)

\* The rows of a subject all lie on one line over at least 2 distinct grade
\* levels.
OnOneLine(sdf) ==
    /\ \E i, j \in 1..Len(sdf) : sdf[i].grade_level # sdf[j].grade_level
    /\ \A i, j, k \in 1..Len(sdf) :
          (sdf[j].grade_level - sdf[i].grade_level) * (sdf[k].score - sdf[i].score)
              = (sdf[k].grade_level - sdf[i].grade_level) * (sdf[j].score - sdf[i].score)

----------------------------------------------------------------------------
(* SpecAnalyze: analyze_student_strengths on prediction lists drawn from a
   bounded set *)

\* Predicted scores around the bounds 7.0 and 8.0, and R2 values around 0.7.
AnalysisScores == {WeakBound - 1, WeakBound, StrongThreshold - 1, StrongThreshold, MaxScore}

AnalysisR2 == {(7 * Scale) \div 10 - 1, (7 * Scale) \div 10, Scale}

AnalysisPredictions ==
    [subject : Subjects, predicted_score : AnalysisScores, r2_score : AnalysisR2]

\* Prediction lists as predict_grade_12 builds them: one entry per subject.
AnalysisInputs ==
    {ps \in SeqsUpTo(AnalysisPredictions, Cardinality(Subjects)) :
        \A i, j \in 1..Len(ps) : ps[i].subject = ps[j].subject => i = j}

InitAnalyze ==
    /\ analysisInput \in AnalysisInputs
    /\ analysis = NoAnalysis
    /\ grades_df = <<>>
    /\ predictResult = NotCalled
    /\ models = [s \in Subjects |-> NoModel]
    /\ trend = NoTrend
    /\ InitDbIdle
    /\ InitRiasecIdle
    /\ InitEvalIdle

\* One default call analyze_student_strengths(predictions).
Analyze ==
    /\ ~analysis.made
    /\ analysis' = [made |-> TRUE,
                    result |-> analyze_student_strengths(analysisInput, StrongThreshold)]
    /\ UNCHANGED <<analysisInput, grades_df, predictResult, models, trend,
                   dbVars, riasecVars, evalVars>>

NextAnalyze == Analyze

SpecAnalyze == InitAnalyze /\ [][NextAnalyze]_vars

\* The subjects a list names, and whether it names each at most once.
Named(subjects) == {subjects[i] : i \in 1..Len(subjects)}

NoRepeat(subjects) == Len(subjects) = Cardinality(Named(subjects))

InputOf(subject) ==
    CHOOSE p \in {analysisInput[i] : i \in 1..Len(analysisInput)} : p.subject = subject

C16_TrendLineTwelve ==
    (trend.made /\ trend.has_model) =>
        LET m == models[trend.subject]
        IN  /\ Len(trend.trend_line_scores) = 12
            /\ trend.trend_line_grades = <<1, 2, 3, 4, 5, 6, 7, 8, 9, 10, 11, 12>>
            /\ \A g \in 1..12 :
                  LET line == (m.coef * g + m.intercept) \div m.den
                  IN  trend.trend_line_scores[g]
                        = (IF line > MaxScore THEN MaxScore
                           ELSE IF line < MinScore THEN MinScore ELSE line)
            /\ trend.trend_line_scores[12] = trend.predicted_grade_12

\* C16 witness: a trend whose line is clamped at 0 at grade 1 and at 10 at
\* grade 12 and is strictly between the two at grade 10.
C16_Witness ==
    /\ trend.made
    /\ trend.has_model
    /\ trend.trend_line_scores[1] = MinScore
    /\ trend.trend_line_scores[12] = MaxScore
    /\ trend.trend_line_scores[10] > MinScore
    /\ trend.trend_line_scores[10] < MaxScore

\* C17: after a prediction run, a subject has a model or a prediction only
\* if its rows hold at least 2 distinct grade_level values.
C17_DistinctGradeLevels ==
    predictResult.called =>
        \A subject \in Subjects :
            LET sdf == SubjectDf(grades_df, subject)
            IN  (\/ models[subject].kind = "model"
                 \/ SubjectEntries(predictResult.value, subject) # <<>>)
                    => Cardinality({sdf[i].grade_level : i \in 1..Len(sdf)}) >= 2

\* C18: the input of every submitted evaluation holds the student's name,
\* the student's profile and the question and code of its own framework row,
\* and nothing else, whatever the other rows are and whatever the other
\* evaluations have returned by then; a finished evaluation's response is
\* about its own question and made from its own LLM reply.
C18_IndependentEvaluation ==
    \A i \in DOMAIN futures :
        /\ DOMAIN futures[i].input
              = {"student_name", "student_profile", "question_id", "riasec_code"}
        /\ futures[i].input.student_name = EvalStudentName
        /\ futures[i].input.student_profile = EvalStudentProfile
        /\ futures[i].input.question_id = framework_df[i].id
        /\ futures[i].input.riasec_code = framework_df[i].riasec_code
        /\ futures[i].state \in {"done", "collected"} =>
              /\ futures[i].result.question_id = framework_df[i].id
              /\ futures[i].result.answer
                    = (IF futures[i].outcome.ok THEN futures[i].outcome.answer ELSE "Error")

\* C18 witness: the third question is submitted after the first has been
\* answered Yes and while the second is still running.
C18_Witness ==
    /\ Len(futures) = 3
    /\ futures[3].state = "pending"
    /\ futures[1].state = "done"
    /\ futures[1].result.answer = "Yes"
    /\ futures[2].state = "running"

\* C19: the riasec_profile of a returned recommendation is the three
\* highest-scoring codes of the scores given, in rank order, and the
\* returned riasec_scores are those scores, whether the LLM call succeeded
\* or failed.
C19_ReturnedProfileTopThree ==
    recommendation.made =>
        /\ recommendation.riasec_scores = riasecResult.scores
        /\ Len(recommendation.riasec_profile) = 3
        /\ \A k \in 1..3 :
              Before(riasecResult.scores, recommendation.riasec_profile[k]) = k - 1

----------------------------------------------------------------------------
(* Claims about the stored predictions of several students (Spec) *)

\* The number of stored prediction rows of a student for a subject.
SubjectRowCount(table, student_id, subject) ==
    BagCardinality(
        LET keep == {r \in BagToSet(table) : r.student_id = student_id /\ r.subject = subject}
        IN  [r \in keep |-> table[r]])

\* C20: after every step the stored predictions hold at most one row per
\* (student, subject), and a regeneration for one student leaves the stored
\* prediction rows of every other student as they were.
C20_OneRowPerSubject ==
    [][ /\ \A st \in Students, su \in Subjects :
              SubjectRowCount(predictionsTable', st, su) <= 1
        /\ \A st \in Students :
              DashboardRun(st) =>
                  \A other \in Students \ {st} :
                      get_student_predictions(predictionsTable', other)
                          = get_student_predictions(predictionsTable, other) ]_vars

\* C20 witness: a regeneration for one student has stored rows while
\* another student has stored rows.
C20_Witness ==
    /\ lastRun.student \in Students
    /\ \A st \in Students : StoredPredictions(st) # EmptyBag

\* C21: the confidence_score of every returned response lies in [0, 1]; it
\* is the evaluator's confidence clamped into [0, 1] whenever the evaluator
\* supplied one (0.0 included), 0.8 when it supplied none, and 0.0 when the
\* evaluation failed.
C21_EvaluatorConfidence ==
    \A i \in DOMAIN futures :
        futures[i].state \in {"done", "collected"} =>
            LET o == futures[i].outcome
                c == futures[i].result.confidence_score
            IN  /\ 0 <= c
                /\ c <= ConfOne
                /\ ~o.ok => c = 0
                /\ (o.ok /\ ~o.has_confidence) => c = DefaultConfidence
                /\ (o.ok /\ o.has_confidence) =>
                      c = (IF o.confidence_score > ConfOne THEN ConfOne
                           ELSE IF o.confidence_score < 0 THEN 0
                           ELSE o.confidence_score)

----------------------------------------------------------------------------
(* SpecReuse: one PredictionService instance used for several
   predict_grade_12 calls, as the cached get_prediction_service gives it *)

\* Small grade tables of one student each.
ReuseRows(student_id) ==
    {GradeRow(student_id, su, pt[1], pt[2]) : su \in Subjects, pt \in DbPoints}

ReuseTables(student_id) == SeqsUpTo(ReuseRows(student_id), 2) \ {<<>>}

InitReuse ==
    /\ InitPredictIdle
    /\ InitDbIdle
    /\ InitRiasecIdle
    /\ InitEvalIdle

\* predict_grade_12(student_id, df) on the instance, with the models of the
\* earlier calls still in self.models.
PredictOn(student_id, df) ==
    /\ grades_df' = df
    /\ LET res == predict_grade_12(student_id, df)
       IN  predictResult' = [called |-> TRUE, raised |-> res.raised, value |-> res.value]
    /\ models' = ModelsAfterPredict(models, df)
    /\ trend' = NoTrend
    /\ UNCHANGED <<analysisInput, analysis, dbVars, riasecVars, evalVars>>

NextReuse ==
    \/ \E st \in Students : \E df \in ReuseTables(st) : PredictOn(st, df)
    \/ \E subject \in Subjects : GetTrend(subject)

SpecReuse == InitReuse /\ [][NextReuse]_vars

\* C22: a trend got after predict_grade_12 on the same grades reports a
\* prediction, a trend line and metrics only if the subject has at least 2
\* rows in these grades, and then those of the model fitted on these grades.
C22_TrendFromCurrentGrades ==
    trend.made =>
        LET sdf == SubjectDf(grades_df, trend.subject)
        IN  /\ trend.has_model => Len(sdf) >= 2
            /\ Len(sdf) < 2 =>
                  /\ trend.trend_line_scores = <<>>
                  /\ trend.metrics.data_points = 0
            /\ (trend.has_model /\ Len(sdf) >= 2) =>
                  LET m == Fit(sdf)
                  IN  /\ trend.predicted_grade_12 = ClipScore(ModelPredict(m, 12))
                      /\ trend.metrics.data_points = Len(sdf)
                      /\ trend.metrics.r2_score = R2Score(m, sdf)

\* ---------------------------------------------------------------------
\* Students and their records: DatabaseService.delete_student
\* ---------------------------------------------------------------------

\* The tables that hold a student or records of a student.
Database ==
    [students |-> studentsTable, grades |-> gradesTable,
     predictions |-> predictionsTable, assessments |-> assessmentTable,
     recommendations |-> recommendationsTable]

\* The number of records of a student in the four child tables.
ChildRows(db, student_id) ==
    BagCardinality(StudentRows(db.grades, student_id))
    + BagCardinality(StudentRows(db.predictions, student_id))
    + Len(SelectSeq(db.assessments, LAMBDA row : row.student_id = student_id))
    + Cardinality({row \in db.recommendations : row.student_id = student_id})

\* The number of records of all students in the four child tables.
AllChildRows(db) ==
    BagCardinality(db.grades) + BagCardinality(db.predictions)
    + Len(db.assessments) + Cardinality(db.recommendations)

\* delete_student that deletes the students row and leaves the child rows.
delete_student_noCascade(db, student_id) ==
    IF student_id \in db.students
    THEN [returned |-> TRUE,
          db |-> [db EXCEPT !.students = db.students \ {student_id}]]
    ELSE [returned |-> FALSE, db |-> db]

\* DatabaseService.delete_student: a stored student is deleted, and the
\* relationships of Student (cascade "all, delete-orphan") delete its grades,
\* predictions, assessment responses and recommendations with it; an unknown
\* id returns False.
delete_student(db, student_id) ==
    IF student_id \in db.students
    THEN [returned |-> TRUE,
          db |-> [students |-> db.students \ {student_id},
                  grades |-> OtherRows(db.grades, student_id),
                  predictions |-> OtherRows(db.predictions, student_id),
                  assessments |-> SelectSeq(db.assessments,
                                     LAMBDA row : row.student_id # student_id),
                  recommendations |-> {row \in db.recommendations :
                                          row.student_id # student_id}]]
    ELSE [returned |-> FALSE, db |-> db]

\* DatabaseService.save_career_recommendation: the student's old
\* recommendation goes, the new one comes.
save_career_recommendation(table, student_id, riasec_profile) ==
    {row \in table : row.student_id # student_id}
        \cup {[student_id |-> student_id, riasec_profile |-> riasec_profile]}

\* The grade a student's n-th row holds.
StudentPoint(n) == IF n % 2 = 1 THEN <<9, 6 * Scale>> ELSE <<10, 7 * Scale>>

\* The response list a student's assessment saves.
StudentResponses ==
    << [question_id |-> 1, answer |-> "Yes", has_confidence |-> TRUE,
        confidence_score |-> 50] >>

InitStudents ==
    /\ gradesTable = EmptyBag
    /\ predictionsTable = EmptyBag
    /\ lastRun = NoRun
    /\ studentsTable = {}
    /\ recommendationsTable = {}
    /\ lastDelete = NoDelete
    /\ InitUsersIdle
    /\ InitPredictIdle
    /\ InitRiasecIdle
    /\ InitEvalIdle

\* DatabaseService.create_student with an id that is not stored
CreateStudent(student_id) ==
    /\ student_id \notin studentsTable
    /\ studentsTable' = studentsTable \cup {student_id}
    /\ UNCHANGED <<gradesTable, predictionsTable, lastRun, recommendationsTable,
                   lastDelete, authVars, predictVars, riasecVars, evalVars>>

\* The grade form of the student page on a stored student:
\* DatabaseService.add_grade, at most MaxGrades rows a student
AddStudentGrade(student_id, subject, grade_level, score) ==
    /\ student_id \in studentsTable
    /\ BagCardinality(StudentRows(gradesTable, student_id)) < MaxGrades
    /\ gradesTable' = gradesTable (+) SetToBag({GradeRow(student_id, subject, grade_level, score)})
    /\ lastRun' = NoRun
    /\ UNCHANGED <<predictionsTable, studentVars, authVars, predictVars, riasecVars, evalVars>>

\* The assessment page saves a student's responses.
SaveAssessment(student_id) ==
    /\ student_id \in studentsTable
    /\ assessmentTable' = save_assessment_responses(assessmentTable, student_id,
                                                    StudentResponses)
    /\ UNCHANGED <<futures, evalResponses, evalPc, predictVars, dbVars, riasecVars>>

\* The assessment page saves a student's recommendation.
SaveRecommendation(student_id, riasec_profile) ==
    /\ student_id \in studentsTable
    /\ recommendationsTable' = save_career_recommendation(recommendationsTable,
                                                          student_id, riasec_profile)
    /\ UNCHANGED <<gradesTable, predictionsTable, lastRun, studentsTable,
                   lastDelete, authVars, predictVars, riasecVars, evalVars>>

\* The student page confirms a delete: delete_student(student_id).
DeleteStudent(student_id) ==
    LET res == delete_student(Database, student_id)
    IN  /\ studentsTable' = res.db.students
        /\ gradesTable' = res.db.grades
        /\ predictionsTable' = res.db.predictions
        /\ assessmentTable' = res.db.assessments
        /\ recommendationsTable' = res.db.recommendations
        /\ lastDelete' = [student |-> student_id, returned |-> res.returned,
                          rows |-> ChildRows(Database, student_id),
                          kept |-> AllChildRows(Database)
                                   - ChildRows(Database, student_id)]
        /\ lastRun' = NoRun
        /\ UNCHANGED <<futures, evalResponses, evalPc, authVars, predictVars, riasecVars>>

NextStudents ==
    \/ \E st \in Students : CreateStudent(st)
    \/ \E st \in Students :
            LET pt == StudentPoint(BagCardinality(StudentRows(gradesTable, st)) + 1)
            IN  AddStudentGrade(st, "Math", pt[1], pt[2])
    \/ \E st \in Students : DashboardRun(st)
    \/ \E st \in Students : SaveAssessment(st)
    \/ \E st \in Students : SaveRecommendation(st, "RIA")
    \/ \E st \in Students : DeleteStudent(st)

SpecStudents == InitStudents /\ [][NextStudents]_vars

\* The records of the other students are the same in both states.
OthersUnchanged(student_id) ==
    /\ OtherRows(gradesTable', student_id) = OtherRows(gradesTable, student_id)
    /\ OtherRows(predictionsTable', student_id) = OtherRows(predictionsTable, student_id)
    /\ SelectSeq(assessmentTable', LAMBDA row : row.student_id # student_id)
         = SelectSeq(assessmentTable, LAMBDA row : row.student_id # student_id)
    /\ {row \in recommendationsTable' : row.student_id # student_id}
         = {row \in recommendationsTable : row.student_id # student_id}
    /\ studentsTable' \ {student_id} = studentsTable \ {student_id}

\* C23: after delete_student(s) returns True no grade, prediction, assessment
\* response or recommendation of s is stored and the records of the other
\* students are as before; on an unknown id it returns False and changes
\* nothing.
C23_DeleteStudentFrame ==
    [][\A st \in Students : DeleteStudent(st) =>
          /\ lastDelete'.returned = (st \in studentsTable)
          /\ lastDelete'.returned =>
                /\ st \notin studentsTable'
                /\ ChildRows([students |-> studentsTable', grades |-> gradesTable',
                              predictions |-> predictionsTable',
                              assessments |-> assessmentTable',
                              recommendations |-> recommendationsTable'], st) = 0
                /\ OthersUnchanged(st)
          /\ ~lastDelete'.returned =>
                UNCHANGED <<studentsTable, gradesTable, predictionsTable,
                            assessmentTable, recommendationsTable>>]_vars

\* A student with records in all four tables was deleted while another
\* student had records in all four tables, which are stored still.
C23_Witness ==
    /\ lastDelete.returned
    /\ lastDelete.rows >= 5
    /\ lastDelete.kept >= 5
    /\ AllChildRows(Database) = lastDelete.kept
    /\ predictionsTable # EmptyBag
    /\ assessmentTable # <<>>
    /\ recommendationsTable # {}

\* ---------------------------------------------------------------------
\* The credit of positive answers (SpecScoring)
\* ---------------------------------------------------------------------

\* Positive answers with a confidence inside [0, 1].
ScoringResponses ==
    [question_id : {1, 2}, answer : {"Yes", "Partial"},
     has_confidence : {TRUE}, confidence_score : {0, 20, ConfOne}]

InitScoring ==
    /\ framework_df \in Frameworks
    /\ assessment_responses \in SeqsUpTo(ScoringResponses, MaxResponses)
    /\ riasecResult = NoResult
    /\ recommendation = NoRecommendation
    /\ InitPredictIdle
    /\ InitDbIdle
    /\ InitEvalIdle

NextScoring == Calculate

SpecScoring == InitScoring /\ [][NextScoring]_vars

\* C24: whatever the confidence in [0, 1], a category answered only with Yes
\* scores at least 50 (a Yes contributes at least 0.5 credit) and a category
\* answered only with Yes and Partial scores at least 25 (a Partial
\* contributes at least 0.25 credit).
C24_AdjustedFloor ==
    (riasecResult.calls >= 1 /\ ~riasecResult.raised) =>
        \A code \in Codes :
            LET rs == CategoryResponses(assessment_responses, framework_df, code)
                s  == riasecResult.scores[code]
            IN  (/\ Len(rs) >= 1
                 /\ \A i \in 1..Len(rs) :
                        /\ rs[i].has_confidence
                        /\ rs[i].confidence_score \in 0..ConfOne) =>
                    /\ (\A i \in 1..Len(rs) : rs[i].answer = "Yes") =>
                            ~RatioLess(s, Ratio(50, 1))
                    /\ (\A i \in 1..Len(rs) : rs[i].answer \in {"Yes", "Partial"}) =>
                            ~RatioLess(s, Ratio(25, 1))

\* ---------------------------------------------------------------------
\* calculate_riasec_scores in floating point (SpecFloat)
\*
\* The scores are Python floats: every product, sum and quotient is rounded
\* to the nearest float (ties to even).  A float is modelled as the rational
\* it stands for, with a significand of MantissaBits bits.
\* ---------------------------------------------------------------------

MantissaBits == 5       \* bits of the significand (53 in a Python float)
ExponentRange == 12     \* the exponents the values of the model need
MaxFloatResponses == 4  \* responses of a list, one for each question

Pow2(n) == 2 ^ n

\* q / 2^k
ScaledBy(q, k) ==
    IF k >= 0 THEN Ratio(q.num, q.den * Pow2(k)) ELSE Ratio(q.num * Pow2(-k), q.den)

\* The integer nearest to n/d, the even one of two that are equally near.
RoundHalfEven(n, d) ==
    LET fl  == n \div d
        rem == n - fl * d
    IN  IF 2 * rem < d THEN fl
        ELSE IF 2 * rem > d THEN fl + 1
        ELSE IF fl % 2 = 0 THEN fl ELSE fl + 1

\* The float nearest to a rational q >= 0.
FloatRound(q) ==
    IF q.num = 0 THEN Ratio(0, 1)
    ELSE LET k == CHOOSE e \in (0 - ExponentRange)..ExponentRange :
                      LET r == ScaledBy(q, e)
                      IN  /\ r.num >= Pow2(MantissaBits - 1) * r.den
                          /\ r.num < Pow2(MantissaBits) * r.den
             r == ScaledBy(q, k)
             m == RoundHalfEven(r.num, r.den)
         IN  IF k >= 0 THEN Ratio(m * Pow2(k), 1) ELSE Ratio(m, Pow2(-k))

FloatAdd(a, b) == FloatRound(Ratio(a.num * b.den + b.num * a.den, a.den * b.den))
FloatMul(a, b) == FloatRound(Ratio(a.num * b.num, a.den * b.den))
FloatDiv(a, b) == FloatRound(Ratio(a.num * b.den, a.den * b.num))

\* base_score * confidence as floats; 1.0, 0.5 and 0.0 are floats, the
\* confidence is the float nearest to its decimal.
FloatFinalScore(response) ==
    LET base_score == Ratio(BaseScore(response.answer), 2)
        confidence == FloatRound(Ratio(ResponseConfidence(response), ConfOne))
    IN  IF base_score.num > 0 THEN FloatMul(base_score, confidence) ELSE Ratio(0, 1)

FloatZeroTotals == [raised |-> FALSE,
                    scores |-> [c \in Codes |-> Ratio(0, 1)],
                    weights |-> [c \in Codes |-> Ratio(0, 1)]]

\* The loop over the responses with float sums.
RECURSIVE FloatAccumulate(_, _, _)
FloatAccumulate(responses, framework, totals) ==
    IF responses = <<>> \/ totals.raised THEN totals
    ELSE LET response == Head(responses)
             rows     == QuestionRows(framework, response.question_id)
         IN  IF rows = <<>>
             THEN [totals EXCEPT !.raised = TRUE]
             ELSE LET question == rows[1]
                      code     == question.riasec_code
                      weight   == FloatRound(Ratio(question.weight, 1))
                  IN  FloatAccumulate(Tail(responses), framework,
                        [totals EXCEPT
                            !.scores[code] =
                                FloatAdd(@, FloatMul(FloatFinalScore(response), weight)),
                            !.weights[code] = FloatAdd(@, weight)])

\* (riasec_scores[code] / riasec_weights[code]) * 100 as floats
FloatNormalizedScore(score_sum, weight_sum) ==
    IF weight_sum.num > 0
    THEN FloatMul(FloatDiv(score_sum, weight_sum), FloatRound(Ratio(100, 1)))
    ELSE score_sum

\* CareerAssessmentService.calculate_riasec_scores with float arithmetic
calculate_riasec_scores_float(responses, framework) ==
    LET t == FloatAccumulate(responses, framework, FloatZeroTotals)
    IN  [raised |-> t.raised,
         scores |-> IF t.raised THEN [c \in Codes |-> Ratio(0, 1)]
                    ELSE [c \in Codes |-> FloatNormalizedScore(t.scores[c], t.weights[c])]]

\* One question for each response: the last of category R, the others of
\* category I, all of weight 1.
FloatFramework ==
    [i \in 1..MaxFloatResponses |->
        [id |-> i, riasec_code |-> IF i = MaxFloatResponses THEN "R" ELSE "I",
         weight |-> 1]]

\* Confidences (in hundredths) of the Yes answers.
FloatConfidences == {10, 20, 30, 60}

\* A Yes answer to each question, in the order of the questions.
FloatResponseLists ==
    {l \in [1..MaxFloatResponses ->
              [question_id : 1..MaxFloatResponses, answer : {"Yes"},
               has_confidence : {TRUE}, confidence_score : FloatConfidences]] :
        \A i \in 1..MaxFloatResponses : l[i].question_id = i}

InitFloat ==
    /\ framework_df = FloatFramework
    /\ assessment_responses \in FloatResponseLists
    /\ riasecResult = NoResult
    /\ recommendation = NoRecommendation
    /\ InitPredictIdle
    /\ InitDbIdle
    /\ InitEvalIdle

\* calculate_riasec_scores on the response list
CalculateFloat ==
    /\ riasecResult.calls < MaxCalls
    /\ LET res == calculate_riasec_scores_float(assessment_responses, framework_df)
       IN  riasecResult' = [calls |-> riasecResult.calls + 1,
                            raised |-> res.raised, scores |-> res.scores]
    /\ UNCHANGED <<framework_df, assessment_responses, recommendation, predictVars,
                   dbVars, evalVars>>

NextFloat == CalculateFloat

SpecFloat == InitFloat /\ [][NextFloat]_vars

\* The lists that hold the items of a list in another order.
Reorderings(list) ==
    {[i \in 1..Len(list) |-> list[f[i]]] :
        f \in {g \in [1..Len(list) -> 1..Len(list)] :
                  \A i, j \in 1..Len(list) : i # j => g[i] # g[j]}}

\* C25: every permutation of the response list yields the six scores, and
\* hence the top-3 profile, that the list itself yields.
C25_OrderIndependent ==
    riasecResult.calls >= 1 =>
        \A perm \in Reorderings(assessment_responses) :
            LET res == calculate_riasec_scores_float(perm, framework_df)
            IN  /\ res.raised = riasecResult.raised
                /\ res.scores = riasecResult.scores
                /\ TopProfile(res.scores) = TopProfile(riasecResult.scores)

\* ---------------------------------------------------------------------
\* One response changed (SpecScoring)
\* ---------------------------------------------------------------------

\* The category of the question a response answers.
CategoryOf(framework, question_id) ==
    QuestionRows(framework, question_id)[1].riasec_code

\* No and Error below Partial below Yes.
AnswerRank(answer) == BaseScore(answer)

\* Response b is response a with the answer upgraded at the same confidence,
\* or with the confidence of its positive answer raised.
Upgrades(a, b) ==
    \/ /\ AnswerRank(b.answer) >= AnswerRank(a.answer)
       /\ b.has_confidence = a.has_confidence
       /\ b.confidence_score = a.confidence_score
    \/ /\ b.answer = a.answer
       /\ a.answer \in {"Yes", "Partial"}
       /\ a.has_confidence /\ b.has_confidence
       /\ b.confidence_score >= a.confidence_score

get_student_assessments(table, student_id) ==
    SelectSeq(table, LAMBDA row : row.student_id = student_id)

\* StudentCareerChatbot.get_student_context: the stored assessments whose
\* question is in the framework, with the question's category.
ChatbotResponses(assessments, framework) ==
    LET found == SelectSeq(assessments,
                     LAMBDA a : QuestionRows(framework, a.question_id) # <<>>)
    IN  [i \in 1..Len(found) |->
            [riasec_code |-> QuestionRows(framework, found[i].question_id)[1].riasec_code,
             answer |-> found[i].answer]]

\* The weight of the first framework row of a category, 1.0 without one.
ChatbotWeight(framework, code) ==
    LET rows == SelectSeq(framework, LAMBDA q : q.riasec_code = code)
    IN  IF rows # <<>> THEN rows[1].weight ELSE 1

\* The loop of StudentCareerChatbot._calculate_riasec_scores; the scores in
\* halves.
RECURSIVE ChatbotAccumulate(_, _, _)
ChatbotAccumulate(responses, framework, totals) ==
    IF responses = <<>> THEN totals
    ELSE LET resp   == Head(responses)
             code   == resp.riasec_code
             weight == ChatbotWeight(framework, code)
             score  == BaseScore(resp.answer)
         IN  ChatbotAccumulate(Tail(responses), framework,
                [totals EXCEPT !.scores[code] = @ + score * weight,
                               !.weights[code] = @ + weight])

\* StudentCareerChatbot._calculate_riasec_scores
chatbot_calculate_riasec_scores(responses, framework) ==
    LET t == ChatbotAccumulate(responses, framework, ZeroTotals)
    IN  [c \in Codes |->
            IF t.weights[c] > 0 THEN Ratio(100 * t.scores[c], 2 * t.weights[c])
            ELSE Ratio(t.scores[c], 2)]

\* The scores in the context the chatbot builds for a student.
ChatbotScores(student_id) ==
    chatbot_calculate_riasec_scores(
        ChatbotResponses(get_student_assessments(assessmentTable, student_id),
                         framework_df),
        framework_df)

\* C27: the scores and top-3 codes the chatbot derives from the stored
\* assessments equal the scores calculate_riasec_scores produced for the
\* responses at assessment time.
C27_ChatbotScoresEqual ==
    evalPc = "scored" =>
        /\ ChatbotScores(EvalStudent) = riasecResult.scores
        /\ TopProfile(ChatbotScores(EvalStudent)) = TopProfile(riasecResult.scores)

\* A stored row read back as a response: what the row has no column for is
\* absent.
StoredResponse(row) ==
    [question_id |-> row.question_id, answer |-> row.answer,
     has_confidence |-> "confidence_score" \in DOMAIN row,
     confidence_score |-> IF "confidence_score" \in DOMAIN row
                          THEN row.confidence_score ELSE 0]

\* C28: after save_assessment_responses the student's stored rows are one per
\* response, with its question_id, answer and confidence_score, and the
\* scores recomputed from the stored rows equal the scores computed from the
\* responses.
C28_ResponsesSurvive ==
    evalPc = "scored" =>
        LET rows == get_student_assessments(assessmentTable, EvalStudent)
        IN  /\ Len(rows) = Len(assessment_responses)
            /\ \A i \in 1..Len(rows) :
                  /\ rows[i].question_id = assessment_responses[i].question_id
                  /\ rows[i].answer = assessment_responses[i].answer
                  /\ StoredResponse(rows[i]).has_confidence
                  /\ StoredResponse(rows[i]).confidence_score
                        = assessment_responses[i].confidence_score
            /\ calculate_riasec_scores(
                   [i \in 1..Len(rows) |-> StoredResponse(rows[i])], framework_df).scores
                 = riasecResult.scores

\* ---------------------------------------------------------------------
\* Users: AuthService.create_user and authenticate_user (SpecUsers)
\*
\* A string is the sequence of its characters.
\* ---------------------------------------------------------------------

RECURSIVE StripLeft(_)
StripLeft(str) ==
    IF str # <<>> /\ Head(str) = " " THEN StripLeft(Tail(str)) ELSE str

RECURSIVE StripRight(_)
StripRight(str) ==
    IF str # <<>> /\ str[Len(str)] = " "
    THEN StripRight(SubSeq(str, 1, Len(str) - 1)) ELSE str

\* str.strip()
strip(str) == StripRight(StripLeft(str))

\* AuthService.prepare_password; raises ValueError on an empty password
prepare_password(password) ==
    IF password = <<>> THEN [raised |-> "ValueError", value |-> None]
    ELSE [raised |-> "none", value |-> strip(password)]

\* Mutant of verify_password: the given password is compared as it is.
verify_password_unstripped(plain_password, stored_password) ==
    plain_password = stored_password

\* AuthService.verify_password
verify_password(plain_password, stored_password) ==
    strip(plain_password) = stored_password

\* AuthService.get_user_by_username
get_user_by_username(users, username) ==
    IF \E user \in users : user.username = username
    THEN CHOOSE user \in users : user.username = username
    ELSE NoUser

\* The unique constraints of table users (username; email, NULLs apart) hold
\* for the stored rows with the pending rows flushed.
UniqueUsers(users, pending) ==
    /\ \A p \in pending : \A u \in users :
          /\ p.username # u.username
          /\ p.email # None => p.email # u.email
    /\ \A p, q \in pending :
          p # q => /\ p.username # q.username
                   /\ p.email # None => p.email # q.email
    /\ \A p \in pending : p \notin users

\* Mutant of create_user: the session is not rolled back after the
\* IntegrityError.
create_user_noRollback(users, session, username, password, email) ==
    LET prepared == prepare_password(password)
        user == [username |-> strip(username),
                 email |-> IF email # None /\ email # <<>> THEN strip(email) ELSE None,
                 password |-> prepared.value, is_active |-> TRUE]
        pending == session \cup {user}
    IN  IF prepared.raised # "none"
        THEN [raised |-> "ValueError", users |-> users, session |-> session,
              user |-> NoUser]
        ELSE IF UniqueUsers(users, pending)
        THEN [raised |-> "none", users |-> users \cup pending, session |-> {},
              user |-> user]
        ELSE [raised |-> "ValueError", users |-> users, session |-> pending,
              user |-> NoUser]

\* AuthService.create_user: the user is added to the session and the session
\* committed; an IntegrityError rolls the session back and becomes a
\* ValueError.
create_user(users, session, username, password, email) ==
    LET prepared == prepare_password(password)
        user == [username |-> strip(username),
                 email |-> IF email # None /\ email # <<>> THEN strip(email) ELSE None,
                 password |-> prepared.value, is_active |-> TRUE]
        pending == session \cup {user}
    IN  IF prepared.raised # "none"
        THEN [raised |-> "ValueError", users |-> users, session |-> session,
              user |-> NoUser]
        ELSE IF UniqueUsers(users, pending)
        THEN [raised |-> "none", users |-> users \cup pending, session |-> {},
              user |-> user]
        ELSE [raised |-> "ValueError", users |-> users, session |-> {},
              user |-> NoUser]

\* AuthService.authenticate_user: the user, or None
authenticate_user(users, username, password) ==
    LET user == get_user_by_username(users, strip(username))
    IN  IF user = NoUser THEN NoUser
        ELSE IF ~user.is_active THEN NoUser
        ELSE IF ~verify_password(password, user.password) THEN NoUser
        ELSE user

RawUsernames == {<<"a">>, <<" ", "a">>, <<"b">>}
RawPasswords == {<<>>, <<"p">>, <<"p", " ">>, <<"q">>}
RawEmails == {None, <<>>, <<"x">>, <<"x", " ">>}

InitUsers ==
    /\ usersTable = {}
    /\ userSession = {}
    /\ authResult = NoCall
    /\ gradesTable = EmptyBag
    /\ predictionsTable = EmptyBag
    /\ lastRun = NoRun
    /\ studentsTable = Students
    /\ recommendationsTable = {}
    /\ lastDelete = NoDelete
    /\ InitPredictIdle
    /\ InitRiasecIdle
    /\ InitEvalIdle

CreateUser(username, password, email) ==
    LET res == create_user(usersTable, userSession, username, password, email)
    IN  /\ usersTable' = res.users
        /\ userSession' = res.session
        /\ authResult' = [op |-> "create_user", username |-> username,
                          password |-> password, email |-> email,
                          raised |-> res.raised, user |-> res.user]
        /\ UNCHANGED <<gradesTable, predictionsTable, lastRun, studentVars,
                       predictVars, riasecVars, evalVars>>

AuthenticateUser(username, password) ==
    /\ authResult' = [op |-> "authenticate_user", username |-> username,
                      password |-> password, email |-> None, raised |-> "none",
                      user |-> authenticate_user(usersTable, username, password)]
    /\ UNCHANGED <<usersTable, userSession, gradesTable, predictionsTable, lastRun,
                   studentVars, predictVars, riasecVars, evalVars>>

\* Column is_active of a stored user is set to False (by an administrator;
\* no operation of the services sets it).
DeactivateUser(username) ==
    /\ \E user \in usersTable : user.username = username /\ user.is_active
    /\ usersTable' = {IF user.username = username
                      THEN [user EXCEPT !.is_active = FALSE] ELSE user :
                      user \in usersTable}
    /\ authResult' = NoCall
    /\ UNCHANGED <<userSession, gradesTable, predictionsTable, lastRun,
                   studentVars, predictVars, riasecVars, evalVars>>

NextUsers ==
    \/ \E u \in RawUsernames, p \in RawPasswords, e \in RawEmails : CreateUser(u, p, e)
    \/ \E u \in RawUsernames, p \in RawPasswords : AuthenticateUser(u, p)
    \/ \E u \in RawUsernames : DeactivateUser(strip(u))

SpecUsers == InitUsers /\ [][NextUsers]_vars

\* The email create_user stores for a given one.
StoredEmail(email) == IF email = None \/ email = <<>> THEN None ELSE strip(email)

\* A stored user has the (stripped) username or the (stripped) email.
UserExists(username, email) ==
    \E user \in usersTable :
        \/ user.username = strip(username)
        \/ StoredEmail(email) # None /\ user.email = StoredEmail(email)

\* The claim as stated: create_user with a username or email that exists
\* raises ValueError and leaves the users and the session as they were;
\* with a fresh username and email it adds exactly one user.
C29_CreateUserAsStated ==
    [][\A u \in RawUsernames, p \in RawPasswords, e \in RawEmails :
          CreateUser(u, p, e) =>
              /\ UserExists(u, e) =>
                    /\ authResult'.raised = "ValueError"
                    /\ usersTable' = usersTable
                    /\ userSession' = {}
              /\ ~UserExists(u, e) =>
                    /\ authResult'.raised = "none"
                    /\ Cardinality(usersTable') = Cardinality(usersTable) + 1
                    /\ usersTable \subseteq usersTable']_vars

\* C29: create_user with a username or email that exists, or with an empty
\* password, raises ValueError and leaves the users and the session as they
\* were; with a non-empty password and a fresh username and email it adds
\* exactly one user, with the stripped username and password.
C29_CreateUser ==
    [][\A u \in RawUsernames, p \in RawPasswords, e \in RawEmails :
          CreateUser(u, p, e) =>
              /\ (UserExists(u, e) \/ p = <<>>) =>
                    /\ authResult'.raised = "ValueError"
                    /\ usersTable' = usersTable
                    /\ userSession' = {}
              /\ (~UserExists(u, e) /\ p # <<>>) =>
                    /\ authResult'.raised = "none"
                    /\ Cardinality(usersTable') = Cardinality(usersTable) + 1
                    /\ usersTable' = usersTable \cup
                          {[username |-> strip(u), email |-> StoredEmail(e),
                            password |-> strip(p), is_active |-> TRUE]}
                    /\ userSession' = {}]_vars

\* A second user was created after a create_user with a non-empty password
\* was refused for an existing username or email.
C29_Witness ==
    /\ Cardinality(usersTable) = 2
    /\ authResult.op = "create_user"
    /\ authResult.raised = "ValueError"
    /\ authResult.password # <<>>
    /\ authResult.email = <<"x", " ">>

\* C30: authenticate_user returns a user exactly when a stored user has the
\* stripped username, is active and has the stripped password as its
\* password, and then that user, else None; after a create_user(u, p) that
\* succeeded, authenticate_user(u, p) returns the user created.
C30_Authenticate ==
    [][/\ \A u \in RawUsernames, p \in RawPasswords :
            AuthenticateUser(u, p) =>
                LET match == {user \in usersTable :
                                 /\ user.username = strip(u)
                                 /\ user.is_active
                                 /\ user.password = strip(p)}
                IN  /\ match = {} => authResult'.user = NoUser
                    /\ match # {} => match = {authResult'.user}
       /\ \A u \in RawUsernames, p \in RawPasswords, e \in RawEmails :
            (CreateUser(u, p, e) /\ authResult'.raised = "none") =>
                /\ authResult'.user \in usersTable'
                /\ authenticate_user(usersTable', u, p) = authResult'.user]_vars

\* A user created with a padded password is returned for it, with an
\* inactive user stored.
C30_Witness ==
    /\ authResult.op = "authenticate_user"
    /\ authResult.user # NoUser
    /\ authResult.password = <<"p", " ">>
    /\ \E user \in usersTable : ~user.is_active

====
